---- MODULE Spec2Model ----
(***************************************************************************)
(* Equipment-type catalog of the WavePhysics service (src/api.py) over the *)
(* PostgreSQL schema of src/sql_postgres.py.                               *)
(*                                                                         *)
(* Spec   : every HTTP handler is one atomic action (one transaction).     *)
(* SpecTx : the handlers that write more than once, or that race on the    *)
(*          uniqueness constraint, run statement by statement in           *)
(*          concurrent READ COMMITTED transactions.                        *)
(***************************************************************************)
EXTENDS Integers, Sequences, FiniteSets, TLC

(* ------------------------------ bounds -------------------------------- *)
MaxBusinesses == 2
MaxTypes == 2

(* SQL NULL of an integer / timestamp column, and of a text column.        *)
NULL == 0
NULLTEXT == "NULL"

(* datetime.now() of a delete: any non-NULL timestamp.                     *)
NOW == 1

(* Names a payload may carry; the first is a seeded default.               *)
Names == {"NM Audit", "CT"}

(* Field values a create or update payload may carry: the schedule fields   *)
(* and the active flag of a type.                                           *)
Profiles ==
    { [interval_weeks |-> 13, rrule |-> "FREQ=WEEKLY;INTERVAL=13", default_lead_weeks |-> 3,
       active |-> TRUE],
      [interval_weeks |-> 26, rrule |-> "FREQ=WEEKLY;INTERVAL=26", default_lead_weeks |-> 4,
       active |-> FALSE] }

(* defaults of seed_equipment_types, restricted to the modelled names.      *)
defaults ==
    << [name |-> "NM Audit", interval_weeks |-> 13,
        rrule |-> "FREQ=WEEKLY;INTERVAL=13", default_lead_weeks |-> 3] >>

BusinessIds == 1..MaxBusinesses

(* Caller contexts produced by get_current_user from a token row.           *)
SuperAdmins ==
    { [username |-> "superadmin", is_admin |-> TRUE, is_super_admin |-> TRUE, business_id |-> b]
        : b \in {NULL} \cup BusinessIds }
Admins ==
    { [username |-> "admin", is_admin |-> TRUE, is_super_admin |-> FALSE, business_id |-> b]
        : b \in BusinessIds }
Callers == SuperAdmins \cup Admins

VARIABLES
    businesses,   \* set of ids of the rows of table businesses
    types,        \* table equipment_types: sequence of rows, id = index
    last,         \* the last completed request and its response
    tx,           \* SpecTx: per session, the open transaction of its request
    clients,      \* table clients: sequence of rows, id = index
    sites,        \* table sites: sequence of rows, id = index
    records,      \* table equipment_record: sequence of rows, id = index
    completions,  \* table equipment_completions: sequence of rows, id = index
    users,        \* table users: sequence of rows, id = index
    auth_tokens   \* table auth_tokens: set of rows, key token

(* The tables below the catalog; the catalog handlers never write them.     *)
recs == <<clients, sites, records, completions>>

(* The tables of the sessions; only the authentication handlers write them. *)
auth == <<users, auth_tokens>>

vars == <<businesses, types, last, tx, clients, sites, records, completions, users,
          auth_tokens>>

(* Two requests run concurrently, each on its own pooled connection.        *)
Sessions == {1, 2}

(* ------------------------------ storage ------------------------------- *)
TypeIds == 1..Len(types)

Live(rows, i) == rows[i].deleted_at = NULL

UniqueViolation_AcrossScopes(rows, self, business_id, name) ==
    /\ business_id # NULL
    /\ \E i \in 1..Len(rows) :
          /\ i # self
          /\ rows[i].business_id \in {business_id, NULL}
          /\ rows[i].name = name

(* UNIQUE(business_id, name): NULL business ids are pairwise distinct, so   *)
(* the constraint never fires for a global row.                             *)
UniqueViolation(rows, self, business_id, name) ==
    /\ business_id # NULL
    /\ \E i \in 1..Len(rows) :
          i # self /\ rows[i].business_id = business_id /\ rows[i].name = name

NewRow(business_id, name, interval_weeks, rrule, default_lead_weeks, active) ==
    [business_id |-> business_id, name |-> name, interval_weeks |-> interval_weeks,
     rrule |-> rrule, default_lead_weeks |-> default_lead_weeks, active |-> active,
     deleted_at |-> NULL, deleted_by |-> NULLTEXT]

LiveGlobalIds(rows, name) ==
    { i \in 1..Len(rows) :
        rows[i].name = name /\ rows[i].business_id = NULL /\ rows[i].deleted_at = NULL }

Tombstone_Deactivates(row, username) ==
    [row EXCEPT !.deleted_at = NOW, !.deleted_by = username, !.active = 0]

(* SET deleted_at = ?, deleted_by = ? of a soft delete.                      *)
Tombstone(row, username) == [row EXCEPT !.deleted_at = NOW, !.deleted_by = username]

get_business_id(current_user) == current_user.business_id

(* A session's open transaction: the handler it runs (op), its position     *)
(* (pc), the request parameters, the rows read into handler variables (et,  *)
(* all_businesses, biz_id) and the uncommitted writes (inserts: rows to     *)
(* append; tombstones: ids of rows to tombstone).  READ COMMITTED: every    *)
(* statement reads the committed store plus the session's own writes.       *)
NoRow == NewRow(NULL, NULLTEXT, NULL, NULLTEXT, NULL, NULL)

Idle ==
    [pc |-> "idle", op |-> "none", id |-> NULL, business_id |-> NULL, username |-> NULLTEXT,
     et |-> NoRow, all_businesses |-> {}, biz_id |-> NULL,
     inserts |-> << >>, tombstones |-> {}]

(* ------------------------------ queries ------------------------------- *)
list_equipment_types_TenantFirst(rows, business_id, active_only) ==
    IF business_id = NULL
    THEN { i \in 1..Len(rows) : Live(rows, i) /\ (active_only => rows[i].active = 1) }
    ELSE { i \in 1..Len(rows) :
              /\ rows[i].business_id = business_id
              /\ Live(rows, i)
              /\ (active_only => rows[i].active = 1) }
         \cup
         { i \in 1..Len(rows) :
              /\ rows[i].business_id = NULL
              /\ Live(rows, i)
              /\ (active_only => rows[i].active = 1)
              /\ ~ \E j \in 1..Len(rows) :
                     /\ rows[j].name = rows[i].name
                     /\ rows[j].business_id = business_id
                     /\ (active_only => rows[j].active = 1)
                     /\ Live(rows, j) }

(* list_equipment_types: ids of the rows returned.                          *)
list_equipment_types(rows, business_id, active_only) ==
    IF business_id = NULL
    THEN { i \in 1..Len(rows) : Live(rows, i) /\ (active_only => rows[i].active = 1) }
    ELSE { i \in 1..Len(rows) :
              /\ rows[i].business_id = NULL
              /\ Live(rows, i)
              /\ (active_only => rows[i].active = 1) }
         \cup
         { i \in 1..Len(rows) :
              /\ rows[i].business_id = business_id
              /\ Live(rows, i)
              /\ (active_only => rows[i].active = 1)
              /\ ~ \E j \in 1..Len(rows) :
                     /\ rows[j].name = rows[i].name
                     /\ rows[j].business_id = NULL
                     /\ (active_only => rows[j].active = 1)
                     /\ Live(rows, j) }

resolve_catalog(rows, B) == list_equipment_types(rows, B, FALSE)

CatalogNamed(rows, B, X) == { i \in resolve_catalog(rows, B) : rows[i].name = X }

(* list_equipment_types_grouped.  An entry keeps the name, the list of      *)
(* businesses (NULL: the 'All Businesses' entry) and the list of type ids;   *)
(* its schedule fields are those of the first row of the name and are left   *)
(* out.  Rows of one name are visited in id order (ORDER BY et.name leaves   *)
(* their order open; the lists differ only in order).                        *)
InList(list, x) == \E k \in 1..Len(list) : list[k] = x

AddBusiness_FirstOnly(businesses_list, business_id) ==
    IF businesses_list = << >> THEN <<business_id>> ELSE businesses_list

(* "Add business info": append the owner unless it is already in the list.   *)
AddBusiness(businesses_list, business_id) ==
    IF InList(businesses_list, business_id) THEN businesses_list
    ELSE Append(businesses_list, business_id)

NoGroup == [businesses |-> << >>, equipment_type_ids |-> << >>]

RECURSIVE GroupRows(_, _, _, _)
GroupRows(rows, k, active_only, grouped) ==
    IF k > Len(rows) THEN grouped
    ELSE IF ~ (rows[k].deleted_at = NULL /\ (active_only => rows[k].active = 1))
    THEN GroupRows(rows, k + 1, active_only, grouped)
    ELSE LET name == rows[k].name
             g == IF name \in DOMAIN grouped THEN grouped[name] ELSE NoGroup
             g2 == [businesses |-> AddBusiness(g.businesses, rows[k].business_id),
                    equipment_type_ids |->
                        IF InList(g.equipment_type_ids, k) THEN g.equipment_type_ids
                        ELSE Append(g.equipment_type_ids, k)]
         IN  GroupRows(rows, k + 1, active_only,
                       [n \in DOMAIN grouped \cup {name} |->
                           IF n = name THEN g2 ELSE grouped[n]])

(* The result list: one entry per key of grouped; a name without an          *)
(* 'All Businesses' row that every business owns is reported as              *)
(* 'All Businesses'.                                                         *)
list_equipment_types_grouped(rows, bizs, active_only) ==
    LET grouped == GroupRows(rows, 1, active_only, << >>)
        all_businesses_count == Cardinality(bizs)
    IN  { [name |-> name,
           businesses |->
               IF /\ ~ InList(grouped[name].businesses, NULL)
                  /\ Len(grouped[name].businesses) = all_businesses_count
               THEN <<NULL>> ELSE grouped[name].businesses,
           equipment_type_ids |-> grouped[name].equipment_type_ids]
          : name \in DOMAIN grouped }

(* get_equipment_type: the HTTP status.  business_id = ? matches no row when *)
(* the caller's business is NULL, and never a global row.                    *)
get_equipment_type(rows, current_user, id) ==
    LET business_id == get_business_id(current_user)
    IN  IF /\ id \in 1..Len(rows)
           /\ business_id # NULL
           /\ rows[id].business_id = business_id
           /\ (current_user.is_super_admin \/ rows[id].deleted_at = NULL)
        THEN 200 ELSE 404

(* ------------------------------ commands ------------------------------ *)
(* The response of the last request: the handler, the HTTP status, and the  *)
(* path/query parameters id and business_id (NULL when the handler has none).*)
Response(op, status, id, business_id) ==
    [op |-> op, status |-> status, id |-> id, business_id |-> business_id]

Init ==
    /\ businesses = {}
    /\ types = << >>
    /\ last = Response("none", 0, NULL, NULL)
    /\ tx = [s \in Sessions |-> Idle]
    /\ clients = << >>
    /\ users = << >>
    /\ auth_tokens = {}
    /\ sites = << >>
    /\ records = << >>
    /\ completions = << >>

(* create_business: INSERT INTO businesses, SERIAL id.                      *)
create_business ==
    /\ Cardinality(businesses) < MaxBusinesses
    /\ businesses' = businesses \cup {Cardinality(businesses) + 1}
    /\ last' = Response("create_business", 201, NULL, Cardinality(businesses) + 1)
    /\ UNCHANGED <<auth, types, tx, recs>>

(* create_equipment_type.  payload = [business_id, name, profile].           *)
(* The scope the row is created in.                                          *)
CreateScope(current_user, payload) ==
    IF current_user.is_super_admin THEN payload.business_id
    ELSE get_business_id(current_user)

(* The responses the handler can give on store rows: the store it commits    *)
(* and the HTTP status.  A unique violation aborts the INSERT; the handler   *)
(* then answers 400 on a backend whose connection stays usable after the     *)
(* error and 500 on one whose transaction is aborted (the SELECT in the      *)
(* except branch raises).                                                    *)
CreateTypeResults(rows, bizs, current_user, payload) ==
    LET business_id == CreateScope(current_user, payload)
    IN  IF /\ current_user.is_super_admin
           /\ payload.business_id # NULL
           /\ payload.business_id \notin bizs
        THEN { [rows |-> rows, status |-> 404, id |-> NULL] }
        ELSE IF UniqueViolation(rows, NULL, business_id, payload.name)
        THEN { [rows |-> rows, status |-> st, id |-> NULL] : st \in {400, 500} }
        ELSE { [rows |-> Append(rows,
                    NewRow(business_id, payload.name, payload.profile.interval_weeks,
                           payload.profile.rrule, payload.profile.default_lead_weeks,
                           IF payload.profile.active THEN 1 ELSE 0)),
                status |-> 201, id |-> Len(rows) + 1] }

create_equipment_type(current_user, payload) ==
    \E r \in CreateTypeResults(types, businesses, current_user, payload) :
        /\ Len(r.rows) <= MaxTypes
        /\ types' = r.rows
        /\ last' = Response("create_type", r.status, r.id, CreateScope(current_user, payload))
        /\ UNCHANGED <<auth, businesses, tx, recs>>

CreatePayloads ==
    [business_id : {NULL} \cup BusinessIds, name : Names, profile : Profiles]

UpdateVisible_AnyBusiness(current_user, id) ==
    /\ id \in TypeIds
    /\ IF current_user.is_super_admin
       THEN current_user.business_id = NULL
               \/ types[id].business_id = current_user.business_id
       ELSE types[id].deleted_at = NULL

(* update_equipment_type.  payload.fields is the set of fields that are not  *)
(* None; the name and the profile fields are taken from payload when set.    *)
UpdateVisible(current_user, id) ==
    /\ id \in TypeIds
    /\ IF current_user.is_super_admin
       THEN current_user.business_id = NULL
               \/ types[id].business_id = current_user.business_id
       ELSE /\ types[id].business_id = get_business_id(current_user)
            /\ types[id].deleted_at = NULL

ApplyUpdate(row, payload) ==
    [row EXCEPT
        !.name = IF "name" \in payload.fields THEN payload.name ELSE @,
        !.interval_weeks = IF "interval_weeks" \in payload.fields
                           THEN payload.profile.interval_weeks ELSE @,
        !.rrule = IF "rrule" \in payload.fields THEN payload.profile.rrule ELSE @,
        !.default_lead_weeks = IF "default_lead_weeks" \in payload.fields
                               THEN payload.profile.default_lead_weeks ELSE @,
        !.active = IF "active" \in payload.fields
                   THEN (IF payload.profile.active THEN 1 ELSE 0) ELSE @]

update_equipment_type(current_user, id, payload) ==
    IF ~ UpdateVisible(current_user, id)
    THEN /\ last' = Response("update_type", 404, id, NULL)
         /\ UNCHANGED <<auth, businesses, types, tx, recs>>
    ELSE IF /\ "name" \in payload.fields
            /\ UniqueViolation(types, id, types[id].business_id, payload.name)
    THEN /\ last' = Response("update_type", 400, id, NULL)
         /\ UNCHANGED <<auth, businesses, types, tx, recs>>
    ELSE /\ types' = [types EXCEPT ![id] = ApplyUpdate(@, payload)]
         /\ last' = Response("update_type", 200, id, NULL)
         /\ UNCHANGED <<auth, businesses, tx, recs>>

ProfileFields == {"interval_weeks", "rrule", "default_lead_weeks", "active"}

AnyName == CHOOSE n \in Names : TRUE
AnyProfile == CHOOSE p \in Profiles : TRUE

UpdatePayloads ==
    {[fields |-> {}, name |-> AnyName, profile |-> AnyProfile]}
    \cup {[fields |-> {"name"}, name |-> n, profile |-> AnyProfile] : n \in Names}
    \cup {[fields |-> ProfileFields, name |-> AnyName, profile |-> p] : p \in Profiles}

DeleteFromAll_GlobalOnly(rows, username, equipment_name) ==
    [i \in 1..Len(rows) |->
        IF /\ rows[i].name = equipment_name
           /\ rows[i].business_id = NULL
           /\ rows[i].deleted_at = NULL
        THEN Tombstone(rows[i], username) ELSE rows[i]]

(* delete_equipment_type, branch delete_from_all (super admin).             *)
DeleteFromAll(rows, username, equipment_name) ==
    [i \in 1..Len(rows) |->
        IF rows[i].name = equipment_name /\ rows[i].deleted_at = NULL
        THEN Tombstone(rows[i], username) ELSE rows[i]]

(* delete_equipment_type, branch business_id on an "All Businesses" type:   *)
(* the loop over all_businesses.  todo is the set of businesses not yet     *)
(* visited; fail_at counts the write statements left before one raises      *)
(* (0: none raises).  Returns the rows written so far and whether a         *)
(* statement raised (IntegrityError of the INSERT, or the injected fault).  *)
RECURSIVE MaterializeOverrides(_, _, _, _, _)
MaterializeOverrides(rows, todo, et, business_id, fail_at) ==
    IF todo = {}
    THEN [rows |-> rows, raised |-> FALSE, fail_at |-> fail_at]
    ELSE LET biz_id == CHOOSE b \in todo : \A c \in todo : b <= c
             existing == \E i \in 1..Len(rows) :
                            /\ rows[i].name = et.name
                            /\ rows[i].business_id = biz_id
                            /\ rows[i].deleted_at = NULL
         IN  IF biz_id = business_id \/ existing
             THEN MaterializeOverrides(rows, todo \ {biz_id}, et, business_id, fail_at)
             ELSE IF fail_at = 1 \/ UniqueViolation(rows, NULL, biz_id, et.name)
             THEN [rows |-> rows, raised |-> TRUE, fail_at |-> fail_at]
             ELSE MaterializeOverrides(
                      Append(rows, NewRow(biz_id, et.name, et.interval_weeks, et.rrule,
                                          et.default_lead_weeks, et.active)),
                      todo \ {biz_id}, et, business_id,
                      IF fail_at = 0 THEN 0 ELSE fail_at - 1)

(* The UPDATE that tombstones the "All Businesses" entry.                    *)
DeleteGlobalEntry(rows, username, equipment_name) ==
    [i \in 1..Len(rows) |->
        IF /\ rows[i].name = equipment_name
           /\ rows[i].business_id = NULL
           /\ rows[i].deleted_at = NULL
        THEN Tombstone(rows[i], username) ELSE rows[i]]

(* The UPDATE of the business-specific branch.                               *)
DeleteBusinessEntry(rows, username, equipment_name, business_id) ==
    [i \in 1..Len(rows) |->
        IF /\ rows[i].name = equipment_name
           /\ rows[i].business_id = business_id
           /\ rows[i].deleted_at = NULL
        THEN Tombstone(rows[i], username) ELSE rows[i]]

Rollback_KeepsWrites(committed, written) == written

(* The store after a request whose transaction did not reach db.commit():   *)
(* the connection goes back to the pool and the open transaction is         *)
(* rolled back.                                                              *)
Rollback(committed, written) == committed

DeleteFromBusiness_NoOverrides(rows, username, id, business_id, fail_at) ==
    IF rows[id].business_id = NULL
    THEN [rows |-> DeleteGlobalEntry(rows, username, rows[id].name), status |-> 204]
    ELSE [rows |-> DeleteBusinessEntry(rows, username, rows[id].name, business_id),
          status |-> 204]

(* delete_equipment_type, branch business_id of the super admin.            *)
DeleteFromBusiness(rows, username, id, business_id, fail_at) ==
    LET et == rows[id]
    IN  IF et.business_id = NULL
        THEN LET m == MaterializeOverrides(rows, businesses, et, business_id, fail_at)
             IN  IF m.raised
                 THEN [rows |-> Rollback(rows, m.rows), status |-> 500]
                 ELSE IF m.fail_at = 1
                 THEN [rows |-> Rollback(rows, m.rows), status |-> 500]
                 ELSE [rows |-> DeleteGlobalEntry(m.rows, username, et.name), status |-> 204]
        ELSE IF fail_at = 1
        THEN [rows |-> Rollback(rows, rows), status |-> 500]
        ELSE [rows |-> DeleteBusinessEntry(rows, username, et.name, business_id),
              status |-> 204]

DeleteSpecific_ByName(rows, username, id) ==
    [i \in 1..Len(rows) |->
        IF rows[i].name = rows[id].name
        THEN Tombstone(rows[i], username) ELSE rows[i]]

(* delete_equipment_type, the branches that delete the type by id (super     *)
(* admin without business_id and delete_from_all; regular admin).            *)
DeleteSpecific(rows, username, id) == [rows EXCEPT ![id] = Tombstone(@, username)]

(* delete_equipment_type(equipment_type_id, business_id, delete_from_all).   *)
DeleteMode(current_user, business_id, delete_from_all) ==
    IF current_user.is_super_admin
    THEN IF delete_from_all THEN "delete_from_all"
         ELSE IF business_id # NULL THEN "delete_from_business"
         ELSE "delete_specific"
    ELSE "delete_own"

delete_equipment_type(current_user, id, business_id, delete_from_all, fail_at) ==
    LET mode == DeleteMode(current_user, business_id, delete_from_all)
        username == current_user.username
        found == /\ id \in TypeIds
                 /\ types[id].deleted_at = NULL
                 /\ (mode = "delete_own" =>
                        types[id].business_id = get_business_id(current_user))
    IN  IF ~ found
        THEN /\ last' = Response(mode, 404, id, business_id)
             /\ UNCHANGED <<auth, businesses, types, tx, recs>>
        ELSE /\ UNCHANGED <<auth, businesses, tx, recs>>
             /\ CASE mode = "delete_from_all" ->
                       /\ types' = DeleteFromAll(types, username, types[id].name)
                       /\ last' = Response(mode, 204, id, business_id)
                  [] mode = "delete_from_business" ->
                       LET r == DeleteFromBusiness(types, username, id, business_id, fail_at)
                       IN  /\ Len(r.rows) <= MaxTypes
                           /\ types' = r.rows
                           /\ last' = Response(mode, r.status, id, business_id)
                  [] OTHER ->
                       /\ types' = DeleteSpecific(types, username, id)
                       /\ last' = Response(mode, 204, id, business_id)

RestoreTypeResult_KeepsDeletedBy(rows, current_user, id) ==
    IF ~ current_user.is_super_admin THEN [rows |-> rows, status |-> 403]
    ELSE IF id \notin 1..Len(rows) THEN [rows |-> rows, status |-> 404]
    ELSE IF rows[id].deleted_at = NULL THEN [rows |-> rows, status |-> 400]
    ELSE [rows |-> [rows EXCEPT ![id] = [@ EXCEPT !.deleted_at = NULL]], status |-> 204]

(* restore_equipment_type (super admin only): the store it commits and the   *)
(* HTTP status.                                                              *)
RestoreTypeResult(rows, current_user, id) ==
    IF ~ current_user.is_super_admin THEN [rows |-> rows, status |-> 403]
    ELSE IF id \notin 1..Len(rows) THEN [rows |-> rows, status |-> 404]
    ELSE IF rows[id].deleted_at = NULL THEN [rows |-> rows, status |-> 400]
    ELSE [rows |-> [rows EXCEPT ![id] = [@ EXCEPT !.deleted_at = NULL,
                                                  !.deleted_by = NULLTEXT]],
          status |-> 204]

restore_equipment_type(current_user, id) ==
    LET r == RestoreTypeResult(types, current_user, id)
    IN  /\ types' = r.rows
        /\ last' = Response("restore_type", r.status, id, NULL)
        /\ UNCHANGED <<auth, businesses, tx, recs>>

(* seed_equipment_types: one INSERT per default not yet present globally     *)
(* (tombstoned rows count as present), one commit.                           *)
RECURSIVE SeedRows(_, _)
SeedRows(rows, k) ==
    IF k > Len(defaults) THEN rows
    ELSE LET d == defaults[k]
             existing == \E i \in 1..Len(rows) :
                            rows[i].name = d.name /\ rows[i].business_id = NULL
         IN  IF existing THEN SeedRows(rows, k + 1)
             ELSE SeedRows(Append(rows, NewRow(NULL, d.name, d.interval_weeks, d.rrule,
                                               d.default_lead_weeks, 1)), k + 1)

seed_equipment_types ==
    /\ Len(SeedRows(types, 1)) <= MaxTypes
    /\ types' = SeedRows(types, 1)
    /\ last' = Response("seed", 201, NULL, NULL)
    /\ UNCHANGED <<auth, businesses, tx, recs>>

(* A token carries a business context only of a business that exists.        *)
ValidCaller(c) == c.business_id # NULL => c.business_id \in businesses

(* Only update_equipment_type and the listing read the business context of  *)
(* a super admin; the other handlers are called with the context unset.      *)
SuperAdmin == CHOOSE c \in SuperAdmins : c.business_id = NULL
WriteCallers == {SuperAdmin} \cup Admins

(* The payloads of a caller: a non-super admin's payload.business_id is      *)
(* ignored, so one value stands for all.                                     *)
CreatePayloadsOf(c) ==
    IF c.is_super_admin THEN CreatePayloads
    ELSE { p \in CreatePayloads : p.business_id = NULL }

(* Query parameters (business_id, delete_from_all) of a delete and the write *)
(* statement a storage fault hits (fail_at, 0: none).  A fault is injected   *)
(* only where the handler writes more than once: at most one INSERT per      *)
(* business and the UPDATE.                                                  *)
DeleteParams ==
    { <<NULL, FALSE, 0>>, <<NULL, TRUE, 0>> }
    \cup { <<b, FALSE, f>> : b \in BusinessIds, f \in 0..(MaxBusinesses + 1) }

DeleteParamsOf(c) ==
    IF c.is_super_admin THEN DeleteParams
    ELSE { <<NULL, FALSE, 0>>, <<NULL, TRUE, 0>> }

Next ==
    \/ create_business
    \/ seed_equipment_types
    \/ \E c \in WriteCallers : \E p \in CreatePayloadsOf(c) :
          ValidCaller(c) /\ create_equipment_type(c, p)
    \/ \E c \in Callers, id \in 1..MaxTypes, p \in UpdatePayloads :
          ValidCaller(c) /\ update_equipment_type(c, id, p)
    \/ \E c \in WriteCallers, id \in 1..MaxTypes : \E q \in DeleteParamsOf(c) :
          ValidCaller(c) /\ delete_equipment_type(c, id, q[1], q[2], q[3])
    \/ \E c \in WriteCallers, id \in 1..MaxTypes :
          ValidCaller(c) /\ restore_equipment_type(c, id)

Spec == Init /\ [][Next]_vars

(* ===================== statement-level transactions =================== *)
(* An uncommitted INSERT of another session with the same key: the INSERT    *)
(* waits for that transaction to end.                                        *)
BlockedByInsert(s, business_id, name) ==
    /\ business_id # NULL
    /\ \E o \in Sessions \ {s} : \E k \in 1..Len(tx[o].inserts) :
          tx[o].inserts[k].business_id = business_id /\ tx[o].inserts[k].name = name

RowsWritten == Len(types) + Len(tx[1].inserts) + Len(tx[2].inserts)

(* The rows a statement of session s reads.                                  *)
Visible(s) == types \o tx[s].inserts

(* connection returned to the pool without commit: the writes are dropped.   *)
TxRollback(s, op, status) ==
    /\ tx' = [tx EXCEPT ![s] = Idle]
    /\ last' = Response(op, status, tx[s].id, tx[s].business_id)
    /\ UNCHANGED <<auth, businesses, types, recs>>

(* db.commit(): the writes of the transaction reach the store at once.       *)
TxCommit(s) ==
    /\ tx[s].pc = "commit"
    /\ types' = [i \in 1..Len(types) |->
                    IF i \in tx[s].tombstones THEN Tombstone(types[i], tx[s].username)
                    ELSE types[i]] \o tx[s].inserts
    /\ last' = Response(tx[s].op, IF tx[s].op = "create_type" THEN 201 ELSE 204,
                        IF tx[s].op = "create_type" THEN Len(types) + 1 ELSE tx[s].id,
                        tx[s].business_id)
    /\ tx' = [tx EXCEPT ![s] = Idle]
    /\ UNCHANGED <<auth, businesses, recs>>

(* create_equipment_type: the INSERT.                                        *)
TxCreateInsert(s, current_user, payload) ==
    LET business_id == CreateScope(current_user, payload)
        row == NewRow(business_id, payload.name, payload.profile.interval_weeks,
                      payload.profile.rrule, payload.profile.default_lead_weeks,
                      IF payload.profile.active THEN 1 ELSE 0)
    IN  /\ tx[s].pc = "idle"
        /\ business_id # NULL => business_id \in businesses
        /\ ~ BlockedByInsert(s, business_id, payload.name)
        /\ IF UniqueViolation(types, NULL, business_id, payload.name)
           THEN /\ \E st \in {400, 500} :
                      last' = Response("create_type", st, NULL, business_id)
                /\ UNCHANGED <<auth, businesses, types, tx, recs>>
           ELSE /\ RowsWritten < MaxTypes
                /\ tx' = [tx EXCEPT ![s] =
                            [Idle EXCEPT !.pc = "commit", !.op = "create_type",
                                         !.business_id = business_id,
                                         !.username = current_user.username,
                                         !.inserts = <<row>>]]
                /\ UNCHANGED <<auth, businesses, types, last, recs>>

(* delete_equipment_type(business_id): SELECT ... WHERE id = ? AND           *)
(* deleted_at IS NULL.                                                       *)
TxSelectType(s, current_user, id, business_id) ==
    /\ tx[s].pc = "idle"
    /\ current_user.is_super_admin
    /\ business_id # NULL
    /\ id \in TypeIds
    /\ IF ~ Live(types, id)
       THEN /\ last' = Response("delete_from_business", 404, id, business_id)
            /\ UNCHANGED <<auth, businesses, types, tx, recs>>
       ELSE /\ tx' = [tx EXCEPT ![s] =
                        [Idle EXCEPT !.pc = IF types[id].business_id = NULL
                                            THEN "select_businesses" ELSE "update_business",
                                     !.op = "delete_from_business", !.id = id,
                                     !.business_id = business_id,
                                     !.username = current_user.username,
                                     !.et = types[id]]]
            /\ UNCHANGED <<auth, businesses, types, last, recs>>

(* SELECT id FROM businesses.                                                *)
TxSelectBusinesses(s) ==
    /\ tx[s].pc = "select_businesses"
    /\ tx' = [tx EXCEPT ![s].pc = "loop", ![s].all_businesses = businesses]
    /\ UNCHANGED <<auth, businesses, types, last, recs>>

(* for biz_row in all_businesses: the SELECT of an existing override.        *)
TxLoop(s) ==
    /\ tx[s].pc = "loop"
    /\ IF tx[s].all_businesses = {}
       THEN tx' = [tx EXCEPT ![s].pc = "update_global"]
       ELSE LET biz_id == CHOOSE b \in tx[s].all_businesses :
                              \A c \in tx[s].all_businesses : b <= c
                rows == Visible(s)
                existing == \E i \in 1..Len(rows) :
                               /\ rows[i].name = tx[s].et.name
                               /\ rows[i].business_id = biz_id
                               /\ rows[i].deleted_at = NULL
            IN  tx' = [tx EXCEPT
                         ![s].all_businesses = @ \ {biz_id},
                         ![s].biz_id = biz_id,
                         ![s].pc = IF biz_id # tx[s].business_id /\ ~ existing
                                   THEN "insert" ELSE "loop"]
    /\ UNCHANGED <<auth, businesses, types, last, recs>>

(* The INSERT of the override of biz_id.                                     *)
TxInsertOverride(s) ==
    LET et == tx[s].et
    IN  /\ tx[s].pc = "insert"
        /\ ~ BlockedByInsert(s, tx[s].biz_id, et.name)
        /\ IF UniqueViolation(types, NULL, tx[s].biz_id, et.name)
           THEN TxRollback(s, "delete_from_business", 500)
           ELSE /\ RowsWritten < MaxTypes
                /\ tx' = [tx EXCEPT
                            ![s].pc = "loop",
                            ![s].inserts = Append(@, NewRow(tx[s].biz_id, et.name,
                                et.interval_weeks, et.rrule, et.default_lead_weeks,
                                et.active))]
                /\ UNCHANGED <<auth, businesses, types, last, recs>>

(* The UPDATE of the "All Businesses" entry; it waits for a row another      *)
(* session has updated and not yet committed.                                *)
TxUpdateGlobal(s) ==
    LET hit == LiveGlobalIds(types, tx[s].et.name)
    IN  /\ tx[s].pc = "update_global"
        /\ \A o \in Sessions \ {s} : tx[o].tombstones \cap hit = {}
        /\ tx' = [tx EXCEPT ![s].pc = "commit", ![s].tombstones = hit]
        /\ UNCHANGED <<auth, businesses, types, last, recs>>

(* The UPDATE of the business-specific branch.                               *)
TxUpdateBusiness(s) ==
    LET hit == { i \in TypeIds : /\ types[i].name = tx[s].et.name
                                 /\ types[i].business_id = tx[s].business_id
                                 /\ Live(types, i) }
    IN  /\ tx[s].pc = "update_business"
        /\ \A o \in Sessions \ {s} : tx[o].tombstones \cap hit = {}
        /\ tx' = [tx EXCEPT ![s].pc = "commit", ![s].tombstones = hit]
        /\ UNCHANGED <<auth, businesses, types, last, recs>>

(* The concurrent requests are those of the super admin, with one profile.  *)
TxCreatePayloads == { p \in CreatePayloads : p.profile = AnyProfile }

TxNext ==
    \/ create_business
    \/ \E s \in Sessions, p \in TxCreatePayloads : TxCreateInsert(s, SuperAdmin, p)
    \/ \E s \in Sessions, id \in 1..MaxTypes, b \in businesses :
          TxSelectType(s, SuperAdmin, id, b)
    \/ \E s \in Sessions : TxSelectBusinesses(s)
    \/ \E s \in Sessions : TxLoop(s)
    \/ \E s \in Sessions : TxInsertOverride(s)
    \/ \E s \in Sessions : TxUpdateGlobal(s)
    \/ \E s \in Sessions : TxUpdateBusiness(s)
    \/ \E s \in Sessions : TxCommit(s)

SpecTx == Init /\ [][TxNext]_vars

(* ======================= equipment records ============================ *)
(* Dates are day numbers; NULL is no date.  A payload carries one of two     *)
(* equipment names and one of two anchor dates.                              *)
EquipmentNames == {"Unit A", "Unit B"}
AnchorDates == {10, 20}
DueDate == 15

ClientRow(business_id) == [business_id |-> business_id, deleted_at |-> NULL]

SiteRow(client_id) == [client_id |-> client_id, deleted_at |-> NULL]

RecordRow(payload) ==
    [client_id |-> payload.client_id, site_id |-> payload.site_id,
     equipment_type_id |-> payload.equipment_type_id,
     equipment_name |-> payload.equipment_name,
     anchor_date |-> payload.anchor_date, due_date |-> payload.due_date,
     interval_weeks |-> payload.interval_weeks,
     active |-> IF payload.active THEN 1 ELSE 0,
     deleted_at |-> NULL, deleted_by |-> NULLTEXT]

(* A physically deleted completion: its id is not reused.                    *)
NoCompletion ==
    [equipment_record_id |-> NULL, due_date |-> NULL, interval_weeks |-> NULL,
     completed_by_user |-> NULLTEXT]

(* c.business_id of the JOIN clients c ON er.client_id = c.id.               *)
ClientBusiness(rows, id) == clients[rows[id].client_id].business_id

(* business_id of a record handler: the token's business, NULL for a super   *)
(* admin viewing all businesses.                                             *)
RecordContext(current_user) ==
    IF current_user.is_super_admin THEN current_user.business_id
    ELSE get_business_id(current_user)

(* get_equipment_record: the row is found.                                   *)
GetRecordFound(rows, current_user, id) ==
    /\ id \in 1..Len(rows)
    /\ IF current_user.is_super_admin
       THEN \/ RecordContext(current_user) = NULL
            \/ ClientBusiness(rows, id) = RecordContext(current_user)
       ELSE /\ ClientBusiness(rows, id) = RecordContext(current_user)
            /\ rows[id].deleted_at = NULL

get_equipment_record(rows, current_user, id) ==
    IF GetRecordFound(rows, current_user, id) THEN 200 ELSE 404

FindRecord_AnyBusiness(rows, current_user, id) ==
    /\ id \in 1..Len(rows)
    /\ IF current_user.is_super_admin /\ RecordContext(current_user) = NULL
       THEN TRUE
       ELSE rows[id].deleted_at = NULL

(* The SELECT of update_equipment_record and create_equipment_completion.    *)
FindRecord(rows, current_user, id) ==
    /\ id \in 1..Len(rows)
    /\ IF current_user.is_super_admin /\ RecordContext(current_user) = NULL
       THEN TRUE
       ELSE /\ ClientBusiness(rows, id) = RecordContext(current_user)
            /\ rows[id].deleted_at = NULL

(* SELECT id FROM equipment_types WHERE id = ? AND (business_id = ? OR       *)
(* business_id IS NULL) AND deleted_at IS NULL.                              *)
TypeVisibleTo(equipment_type_id, business_id) ==
    /\ equipment_type_id \in TypeIds
    /\ types[equipment_type_id].business_id \in {business_id, NULL}
    /\ types[equipment_type_id].deleted_at = NULL

LiveSite(site_id) == site_id \in 1..Len(sites) /\ sites[site_id].deleted_at = NULL

ExistingInSite_LiveOnly(rows, site_id, equipment_name, self) ==
    \E i \in 1..Len(rows) :
        /\ i # self
        /\ rows[i].site_id = site_id
        /\ rows[i].equipment_name = equipment_name
        /\ rows[i].deleted_at = NULL

(* SELECT id FROM equipment_record WHERE site_id = ? AND equipment_name = ?  *)
(* [AND id != ?]: tombstoned rows count.                                     *)
ExistingInSite(rows, site_id, equipment_name, self) ==
    \E i \in 1..Len(rows) :
        /\ i # self
        /\ rows[i].site_id = site_id
        /\ rows[i].equipment_name = equipment_name

Result(rows, status, detail) == [rows |-> rows, status |-> status, detail |-> detail]

CreateRecordResult_SiteUnchecked(rows, current_user, payload) ==
    IF ~ (payload.client_id \in 1..Len(clients)
          /\ clients[payload.client_id].deleted_at = NULL)
    THEN Result(rows, 404, "Client not found")
    ELSE LET business_id == clients[payload.client_id].business_id
         IN  IF business_id = NULL
             THEN Result(rows, 400, "Client has no business assigned")
             ELSE IF ~ current_user.is_super_admin
                     /\ business_id # get_business_id(current_user)
             THEN Result(rows, 403, "Client does not belong to your business")
             ELSE IF ~ LiveSite(payload.site_id)
             THEN Result(rows, 404, "Site not found")
             ELSE IF ~ TypeVisibleTo(payload.equipment_type_id, business_id)
             THEN Result(rows, 404, "Equipment type not found")
             ELSE IF ExistingInSite(rows, payload.site_id, payload.equipment_name, NULL)
             THEN Result(rows, 400, "already exists in this site")
             ELSE LET inserted == Append(rows, RecordRow(payload))
                  IN  IF get_equipment_record(inserted, current_user, Len(inserted)) = 200
                      THEN Result(inserted, 201, "created")
                      ELSE Result(inserted, 404, "Equipment record not found")

(* create_equipment_record: the store it commits, the HTTP status and the    *)
(* detail of the response.  The row is committed before the handler reads    *)
(* it back with get_equipment_record, whose 404 then is the response.        *)
CreateRecordResult(rows, current_user, payload) ==
    IF ~ (payload.client_id \in 1..Len(clients)
          /\ clients[payload.client_id].deleted_at = NULL)
    THEN Result(rows, 404, "Client not found")
    ELSE LET business_id == clients[payload.client_id].business_id
         IN  IF business_id = NULL
             THEN Result(rows, 400, "Client has no business assigned")
             ELSE IF ~ current_user.is_super_admin
                     /\ business_id # get_business_id(current_user)
             THEN Result(rows, 403, "Client does not belong to your business")
             ELSE IF ~ LiveSite(payload.site_id)
             THEN Result(rows, 404, "Site not found")
             ELSE IF sites[payload.site_id].client_id # payload.client_id
             THEN Result(rows, 400, "Site does not belong to the specified client")
             ELSE IF ~ TypeVisibleTo(payload.equipment_type_id, business_id)
             THEN Result(rows, 404, "Equipment type not found")
             ELSE IF ExistingInSite(rows, payload.site_id, payload.equipment_name, NULL)
             THEN Result(rows, 400, "already exists in this site")
             ELSE LET inserted == Append(rows, RecordRow(payload))
                  IN  IF get_equipment_record(inserted, current_user, Len(inserted)) = 200
                      THEN Result(inserted, 201, "created")
                      ELSE Result(inserted, 404, "Equipment record not found")

(* update_equipment_record.  payload.fields is the set of fields that are    *)
(* not None.                                                                 *)
ApplyRecordUpdate(row, payload) ==
    [row EXCEPT
        !.site_id = IF "site_id" \in payload.fields THEN payload.site_id ELSE @,
        !.equipment_type_id = IF "equipment_type_id" \in payload.fields
                              THEN payload.equipment_type_id ELSE @,
        !.equipment_name = IF "equipment_name" \in payload.fields
                           THEN payload.equipment_name ELSE @]

UpdateRecordResult(rows, current_user, id, payload) ==
    IF ~ FindRecord(rows, current_user, id)
    THEN Result(rows, 404, "Equipment record not found")
    ELSE LET current_record == rows[id]
             equipment_business_id == ClientBusiness(rows, id)
             site_id_to_check == IF "site_id" \in payload.fields
                                 THEN payload.site_id ELSE current_record.site_id
             equipment_name_to_check == IF "equipment_name" \in payload.fields
                                        THEN payload.equipment_name
                                        ELSE current_record.equipment_name
         IN  IF equipment_business_id = NULL
             THEN Result(rows, 400, "Equipment record's client has no business assigned")
             ELSE IF /\ "equipment_type_id" \in payload.fields
                     /\ IF current_user.is_super_admin /\ RecordContext(current_user) = NULL
                        THEN payload.equipment_type_id \notin TypeIds
                        ELSE ~ TypeVisibleTo(payload.equipment_type_id, equipment_business_id)
             THEN Result(rows, 404, "Equipment type not found")
             ELSE IF "site_id" \in payload.fields /\ ~ LiveSite(payload.site_id)
             THEN Result(rows, 404, "Site not found")
             ELSE IF /\ "site_id" \in payload.fields
                     /\ sites[payload.site_id].client_id # current_record.client_id
             THEN Result(rows, 400, "Site does not belong to the same client")
             ELSE IF /\ payload.fields \cap {"equipment_name", "site_id"} # {}
                     /\ ExistingInSite(rows, site_id_to_check, equipment_name_to_check, id)
             THEN Result(rows, 400, "already exists in this site")
             ELSE LET updated == [rows EXCEPT ![id] = ApplyRecordUpdate(@, payload)]
                  IN  IF get_equipment_record(updated, current_user, id) = 200
                      THEN Result(updated, 200, "updated")
                      ELSE Result(updated, 404, "Equipment record not found")

DeleteRecordResult_Physical(rows, current_user, id) ==
    IF ~ (/\ id \in 1..Len(rows)
          /\ rows[id].deleted_at = NULL
          /\ (RecordContext(current_user) = NULL
                 \/ ClientBusiness(rows, id) = RecordContext(current_user)))
    THEN Result(rows, 404, "Equipment record not found")
    ELSE Result([rows EXCEPT ![id] =
                    [Tombstone(@, current_user.username) EXCEPT !.active = 0]],
                204, "deleted")

(* delete_equipment_record: soft delete.                                     *)
DeleteRecordResult(rows, current_user, id) ==
    IF ~ (/\ id \in 1..Len(rows)
          /\ rows[id].deleted_at = NULL
          /\ (RecordContext(current_user) = NULL
                 \/ ClientBusiness(rows, id) = RecordContext(current_user)))
    THEN Result(rows, 404, "Equipment record not found")
    ELSE Result([rows EXCEPT ![id] = Tombstone(@, current_user.username)], 204, "deleted")

(* restore_equipment_record (super admin only).                              *)
RestoreRecordResult(rows, current_user, id) ==
    IF ~ current_user.is_super_admin
    THEN Result(rows, 403, "Super admin access required")
    ELSE IF id \notin 1..Len(rows)
    THEN Result(rows, 404, "Equipment record not found")
    ELSE IF rows[id].deleted_at = NULL
    THEN Result(rows, 400, "Equipment record is not deleted")
    ELSE Result([rows EXCEPT ![id] = [@ EXCEPT !.deleted_at = NULL,
                                               !.deleted_by = NULLTEXT]],
                204, "restored")

(* create_equipment_completion: the completions it commits and the status.   *)
CreateCompletionResult(comps, rows, current_user, payload) ==
    IF ~ FindRecord(rows, current_user, payload.equipment_record_id)
    THEN Result(comps, 404, "Equipment record not found")
    ELSE Result(Append(comps,
                       [equipment_record_id |-> payload.equipment_record_id,
                        due_date |-> payload.due_date,
                        interval_weeks |-> payload.interval_weeks,
                        completed_by_user |-> current_user.username]),
                201, "created")

CompletionIds(comps) == { k \in 1..Len(comps) : comps[k] # NoCompletion }

(* delete_equipment_completion: DELETE FROM equipment_completions.           *)
DeleteCompletionResult(comps, rows, current_user, completion_id) ==
    IF ~ (/\ completion_id \in CompletionIds(comps)
          /\ (\/ current_user.is_super_admin /\ RecordContext(current_user) = NULL
              \/ ClientBusiness(rows, comps[completion_id].equipment_record_id)
                    = RecordContext(current_user)))
    THEN Result(comps, 404, "Completion record not found")
    ELSE Result([comps EXCEPT ![completion_id] = NoCompletion], 204, "deleted")

(* ---- record queries: the ids of the rows returned ---- *)
(* active_only is "None" when the query parameter is absent.                 *)
list_equipment_records(rows, current_user, client_id, active_only) ==
    LET business_id == RecordContext(current_user)
        active == IF active_only = "None" THEN ~ current_user.is_admin
                  ELSE active_only = "true"
    IN  { i \in 1..Len(rows) :
            /\ rows[i].deleted_at = NULL
            /\ (business_id # NULL => ClientBusiness(rows, i) = business_id)
            /\ (client_id # NULL => rows[i].client_id = client_id)
            /\ (active => rows[i].active = 1) }

get_overdue_equipment_records_DueToday(rows, current_user, today) ==
    LET business_id == RecordContext(current_user)
    IN  { i \in 1..Len(rows) :
            /\ rows[i].deleted_at = NULL
            /\ rows[i].active = 1
            /\ rows[i].due_date # NULL
            /\ rows[i].due_date <= today
            /\ (business_id # NULL => ClientBusiness(rows, i) = business_id) }

get_overdue_equipment_records(rows, current_user, today) ==
    LET business_id == RecordContext(current_user)
    IN  { i \in 1..Len(rows) :
            /\ rows[i].deleted_at = NULL
            /\ rows[i].active = 1
            /\ rows[i].due_date # NULL
            /\ rows[i].due_date < today
            /\ (business_id # NULL => ClientBusiness(rows, i) = business_id) }

(* The optional query parameter weeks: None, or the integer supplied.        *)
NoWeeks == << >>
Weeks(w) == <<w>>

(* "if weeks:" is false for None and for 0.                                  *)
Truthy(weeks) == weeks # NoWeeks /\ weeks[1] # 0

(* The window of get_upcoming_equipment_records: <<start, end>>.  Dates are  *)
(* day numbers; start_date and end_date are NULL when absent.                *)
UpcomingWindow(today, start_date, end_date, weeks) ==
    IF Truthy(weeks) THEN <<today, today + 7 * weeks[1]>>
    ELSE IF start_date # NULL /\ end_date # NULL THEN <<start_date, end_date>>
    ELSE <<today, today + 7 * 2>>

get_upcoming_equipment_records_ExclusiveEnd(rows, current_user, today, start_date, end_date, weeks) ==
    LET business_id == RecordContext(current_user)
        window == UpcomingWindow(today, start_date, end_date, weeks)
    IN  { i \in 1..Len(rows) :
            /\ rows[i].deleted_at = NULL
            /\ rows[i].active = 1
            /\ rows[i].due_date # NULL
            /\ rows[i].due_date >= window[1]
            /\ rows[i].due_date < window[2]
            /\ (business_id # NULL => ClientBusiness(rows, i) = business_id) }

get_upcoming_equipment_records(rows, current_user, today, start_date, end_date, weeks) ==
    LET business_id == RecordContext(current_user)
        window == UpcomingWindow(today, start_date, end_date, weeks)
    IN  { i \in 1..Len(rows) :
            /\ rows[i].deleted_at = NULL
            /\ rows[i].active = 1
            /\ rows[i].due_date # NULL
            /\ rows[i].due_date >= window[1]
            /\ rows[i].due_date <= window[2]
            /\ (business_id # NULL => ClientBusiness(rows, i) = business_id) }

(* list_equipment_completions: the business the query filters on, the status *)
(* and the ids returned.                                                     *)
CompletionsBusiness(current_user, business_id_filter) ==
    IF current_user.is_super_admin
    THEN IF business_id_filter # NULL THEN business_id_filter
         ELSE current_user.business_id
    ELSE get_business_id(current_user)

list_equipment_completions(comps, rows, current_user, equipment_record_id, business_id_filter) ==
    LET business_id == CompletionsBusiness(current_user, business_id_filter)
        er_check == /\ equipment_record_id \in 1..Len(rows)
                    /\ (business_id # NULL =>
                           ClientBusiness(rows, equipment_record_id) = business_id)
    IN  IF equipment_record_id # NULL /\ ~ er_check
        THEN [status |-> 404, ids |-> {}]
        ELSE [status |-> 200,
              ids |-> { k \in CompletionIds(comps) :
                          /\ (business_id # NULL =>
                                ClientBusiness(rows, comps[k].equipment_record_id)
                                    = business_id)
                          /\ (equipment_record_id # NULL =>
                                comps[k].equipment_record_id = equipment_record_id) }]

(* ---- the record handlers as actions ---- *)
MaxRecords == 2
MaxCompletions == 1

(* last keeps the last record request that was answered with success.        *)
Answered(r, op, id) == IF r.status < 300 THEN Response(op, r.status, id, NULL) ELSE last

create_equipment_record(current_user, payload) ==
    LET r == CreateRecordResult(records, current_user, payload)
    IN  /\ Len(r.rows) <= MaxRecords
        /\ records' = r.rows
        /\ last' = Answered(r, "create_record", NULL)
        /\ UNCHANGED <<auth, businesses, types, tx, clients, sites, completions>>

update_equipment_record(current_user, id, payload) ==
    LET r == UpdateRecordResult(records, current_user, id, payload)
    IN  /\ records' = r.rows
        /\ last' = Answered(r, "update_record", id)
        /\ UNCHANGED <<auth, businesses, types, tx, clients, sites, completions>>

delete_equipment_record_Cascades(current_user, id) ==
    LET r == DeleteRecordResult(records, current_user, id)
    IN  /\ records' = r.rows
        /\ completions' = IF r.status = 204
                          THEN [k \in 1..Len(completions) |->
                                  IF completions[k] # NoCompletion
                                     /\ completions[k].equipment_record_id = id
                                  THEN NoCompletion ELSE completions[k]]
                          ELSE completions
        /\ last' = Answered(r, "delete_record", id)
        /\ UNCHANGED <<auth, businesses, types, tx, clients, sites>>

delete_equipment_record(current_user, id) ==
    LET r == DeleteRecordResult(records, current_user, id)
    IN  /\ records' = r.rows
        /\ last' = Answered(r, "delete_record", id)
        /\ UNCHANGED <<auth, businesses, types, tx, clients, sites, completions>>

restore_equipment_record(current_user, id) ==
    LET r == RestoreRecordResult(records, current_user, id)
    IN  /\ records' = r.rows
        /\ last' = Answered(r, "restore_record", id)
        /\ UNCHANGED <<auth, businesses, types, tx, clients, sites, completions>>

create_equipment_completion_AdvancesDue(current_user, payload) ==
    LET r == CreateCompletionResult(completions, records, current_user, payload)
        id == payload.equipment_record_id
    IN  /\ Len(r.rows) <= MaxCompletions
        /\ completions' = r.rows
        /\ records' = IF r.status = 201
                      THEN [records EXCEPT ![id].anchor_date = payload.due_date,
                                           ![id].due_date = payload.due_date + 7 * records[id].interval_weeks]
                      ELSE records
        /\ last' = Answered(r, "create_completion", id)
        /\ UNCHANGED <<auth, businesses, types, tx, clients, sites>>

create_equipment_completion(current_user, payload) ==
    LET r == CreateCompletionResult(completions, records, current_user, payload)
    IN  /\ Len(r.rows) <= MaxCompletions
        /\ completions' = r.rows
        /\ last' = Answered(r, "create_completion", payload.equipment_record_id)
        /\ UNCHANGED <<auth, businesses, types, tx, clients, sites, records>>

delete_equipment_completion(current_user, completion_id) ==
    LET r == DeleteCompletionResult(completions, records, current_user, completion_id)
    IN  /\ completions' = r.rows
        /\ last' = Answered(r, "delete_completion", completion_id)
        /\ UNCHANGED <<auth, businesses, types, tx, clients, sites, records>>

(* The store the record handlers start from: every business has one client   *)
(* (create_client by its admin), the first client has two sites and every    *)
(* other client one (create_site), the catalog is seeded and the admin of    *)
(* the first business has created a type of its own.                         *)
SetupClients == [b \in BusinessIds |-> ClientRow(b)]

SetupSites ==
    <<SiteRow(1), SiteRow(1)>> \o [k \in 1..(MaxBusinesses - 1) |-> SiteRow(k + 1)]

SetupTypes ==
    LET admin == CHOOSE c \in Admins : c.business_id = 1
        payload == [business_id |-> NULL, name |-> "CT", profile |-> AnyProfile]
    IN  (CHOOSE r \in CreateTypeResults(SeedRows(<< >>, 1), BusinessIds, admin, payload) :
            TRUE).rows

InitRec ==
    /\ businesses = BusinessIds
    /\ types = SetupTypes
    /\ last = Response("none", 0, NULL, NULL)
    /\ tx = [s \in Sessions |-> Idle]
    /\ clients = SetupClients
    /\ users = << >>
    /\ auth_tokens = {}
    /\ sites = SetupSites
    /\ records = << >>
    /\ completions = << >>

RecordPayloads ==
    [client_id : 1..MaxBusinesses, site_id : 1..(MaxBusinesses + 1),
     equipment_type_id : 1..MaxTypes, equipment_name : EquipmentNames,
     anchor_date : AnchorDates, due_date : {DueDate}, interval_weeks : {52},
     active : {TRUE}]

RecordUpdatePayloads ==
    { [fields |-> {"site_id"}, site_id |-> v, equipment_type_id |-> NULL,
       equipment_name |-> NULLTEXT] : v \in 1..(MaxBusinesses + 1) }
    \cup { [fields |-> {"equipment_type_id"}, site_id |-> NULL, equipment_type_id |-> t,
            equipment_name |-> NULLTEXT] : t \in 1..MaxTypes }
    \cup { [fields |-> {"equipment_name"}, site_id |-> NULL, equipment_type_id |-> NULL,
            equipment_name |-> n] : n \in EquipmentNames }

CompletionPayloads ==
    [equipment_record_id : 1..MaxRecords, due_date : AnchorDates, interval_weeks : {52}]

(* The requests that build the stores: records are created with the first    *)
(* anchor date and soft-deleted by business admins; a super admin restores   *)
(* them.                                                                     *)
FirstAnchor == CHOOSE d \in AnchorDates : \A e \in AnchorDates : d <= e

NextRec ==
    \/ \E c \in WriteCallers, p \in RecordPayloads :
          p.anchor_date = FirstAnchor /\ create_equipment_record(c, p)
    \/ \E c \in WriteCallers, id \in 1..MaxRecords, p \in RecordUpdatePayloads :
          update_equipment_record(c, id, p)
    \/ \E c \in Admins, id \in 1..MaxRecords : delete_equipment_record(c, id)
    \/ \E id \in 1..MaxRecords : restore_equipment_record(SuperAdmin, id)
    \/ \E c \in Admins, p \in CompletionPayloads :
          p.due_date = FirstAnchor /\ create_equipment_completion(c, p)
    \/ \E c \in Admins, id \in 1..MaxCompletions : delete_equipment_completion(c, id)

SpecRec == InitRec /\ [][NextRec]_vars

(* The ledger under the commands on records and types: an admin of the      *)
(* first business creates records of the seeded type and records             *)
(* completions, while records are updated, deleted and restored, types are   *)
(* deleted and restored and completions are deleted.                         *)
LedgerAdmin == CHOOSE c \in Admins : c.business_id = 1

LedgerUpdates == { p \in RecordUpdatePayloads : p.fields = {"equipment_name"} }

NextLedger ==
    \/ \E p \in RecordPayloads :
          /\ p.anchor_date = FirstAnchor /\ p.client_id = 1 /\ p.equipment_type_id = 1
          /\ create_equipment_record(LedgerAdmin, p)
    \/ \E p \in CompletionPayloads : create_equipment_completion(LedgerAdmin, p)
    \/ \E c \in WriteCallers, id \in 1..MaxCompletions : delete_equipment_completion(c, id)
    \/ \E id \in 1..MaxRecords, p \in LedgerUpdates :
          update_equipment_record(LedgerAdmin, id, p)
    \/ \E id \in 1..MaxRecords : delete_equipment_record(LedgerAdmin, id)
    \/ \E id \in 1..MaxRecords : restore_equipment_record(SuperAdmin, id)
    \/ \E id \in TypeIds : delete_equipment_type(SuperAdmin, id, NULL, FALSE, 0)
    \/ \E id \in TypeIds : restore_equipment_type(SuperAdmin, id)

SpecLedger == InitRec /\ [][NextLedger]_vars

(* ---- the window queries on stores of records ---- *)
(* The stores the window queries are asked on: two records, created by      *)
(* create_equipment_record with or without a due date, active or not, the    *)
(* first possibly soft-deleted afterwards, the second of any business.       *)
WinTodays == {20, 21}

WinDueDates == {NULL, 19, 20, 21, 27, 28, 34, 35}

SiteOf(client_id) == IF client_id = 1 THEN 1 ELSE client_id + 1

WinRow(client_id, equipment_name, due_date, active) ==
    RecordRow([client_id |-> client_id, site_id |-> SiteOf(client_id),
               equipment_type_id |-> 1, equipment_name |-> equipment_name,
               anchor_date |-> FirstAnchor, due_date |-> due_date,
               interval_weeks |-> 52, active |-> active])

WinStores ==
    { <<r1, r2>> :
        r1 \in { WinRow(1, "Unit A", d, a) : d \in WinDueDates, a \in BOOLEAN }
               \cup { Tombstone(WinRow(1, "Unit A", d, TRUE), "admin") : d \in WinDueDates },
        r2 \in { WinRow(b, "Unit B", d, TRUE) : b \in BusinessIds, d \in {19, 34} } }

InitWin ==
    /\ businesses = BusinessIds
    /\ types = SetupTypes
    /\ last = Response("none", 0, NULL, NULL)
    /\ tx = [s \in Sessions |-> Idle]
    /\ clients = SetupClients
    /\ users = << >>
    /\ auth_tokens = {}
    /\ sites = SetupSites
    /\ records \in WinStores
    /\ completions = << >>

(* A window query and the ids of the records it returned.                    *)
WindowResponse(op, current_user, today, start_date, end_date, weeks, ids) ==
    [op |-> op, status |-> 200, id |-> NULL, business_id |-> RecordContext(current_user),
     today |-> today, start_date |-> start_date, end_date |-> end_date, weeks |-> weeks,
     ids |-> ids]

overdue(current_user, today) ==
    /\ last' = WindowResponse("overdue", current_user, today, NULL, NULL, NoWeeks,
                              get_overdue_equipment_records(records, current_user, today))
    /\ UNCHANGED <<auth, businesses, types, tx, recs>>

upcoming(current_user, today, start_date, end_date, weeks) ==
    /\ last' = WindowResponse("upcoming", current_user, today, start_date, end_date, weeks,
                              get_upcoming_equipment_records(records, current_user, today,
                                                             start_date, end_date, weeks))
    /\ UNCHANGED <<auth, businesses, types, tx, recs>>

(* start_date and end_date of a request: none, a window from today, a        *)
(* window from the past, a start without an end.                             *)
WinDates == { <<NULL, NULL>>, <<20, 27>>, <<19, 27>>, <<20, NULL>> }

WinWeeks == { NoWeeks, Weeks(0), Weeks(1), Weeks(2) }

NextWin ==
    \/ \E c \in WriteCallers, today \in WinTodays : overdue(c, today)
    \/ \E c \in WriteCallers, today \in WinTodays, d \in WinDates, w \in WinWeeks :
          upcoming(c, today, d[1], d[2], w)

SpecWin == InitWin /\ [][NextWin]_vars

(* ---- RecordWindowClassifier: due_this_month ---- *)
(* Calendar dates <<year, month, day>>, ordered as their ISO text is; a      *)
(* record without a due date carries NoDate.                                 *)
NoDate == << >>

DateBefore(a, b) ==
    \/ a[1] < b[1]
    \/ a[1] = b[1] /\ a[2] < b[2]
    \/ a[1] = b[1] /\ a[2] = b[2] /\ a[3] < b[3]

month_start(today) == <<today[1], today[2], 1>>

next_month(today) ==
    IF today[2] = 12 THEN <<today[1] + 1, 1, 1>> ELSE <<today[1], today[2] + 1, 1>>

due_this_month_ThroughNextFirst(rows, today) ==
    { i \in 1..Len(rows) :
        /\ rows[i].active = 1
        /\ rows[i].due_date # NoDate
        /\ ~ DateBefore(rows[i].due_date, month_start(today))
        /\ ~ DateBefore(month_start(next_month(today)), rows[i].due_date) }

due_this_month(rows, today) ==
    { i \in 1..Len(rows) :
        /\ rows[i].active = 1
        /\ rows[i].due_date # NoDate
        /\ ~ DateBefore(rows[i].due_date, month_start(today))
        /\ DateBefore(rows[i].due_date, month_start(next_month(today))) }

(* Reference dates and due dates at the ends of months of 28, 29, 30 and 31  *)
(* days and at the end of a year.                                            *)
MonthTodays == { <<2024, 2, 29>>, <<2024, 1, 15>>, <<2024, 12, 31>>, <<2023, 2, 1>>, <<2024, 4, 30>> }

MonthDueDates ==
    { NoDate, <<2024, 1, 31>>, <<2024, 2, 1>>, <<2024, 2, 29>>, <<2024, 3, 1>>,
      <<2024, 4, 30>>, <<2024, 5, 1>>, <<2024, 12, 1>>, <<2025, 1, 1>>,
      <<2023, 2, 28>>, <<2023, 3, 1>>, <<2023, 1, 31>> }

MonthStores ==
    { <<r1, r2>> :
        r1 \in { WinRow(1, "Unit A", d, a) : d \in MonthDueDates, a \in BOOLEAN },
        r2 \in { WinRow(1, "Unit B", d, TRUE) : d \in MonthDueDates } }

InitMonth ==
    /\ businesses = BusinessIds
    /\ types = SetupTypes
    /\ last = Response("none", 0, NULL, NULL)
    /\ tx = [s \in Sessions |-> Idle]
    /\ clients = SetupClients
    /\ users = << >>
    /\ auth_tokens = {}
    /\ sites = SetupSites
    /\ records \in MonthStores
    /\ completions = << >>

DueThisMonth(today) ==
    /\ last' = [op |-> "due_this_month", status |-> 200, id |-> NULL, business_id |-> NULL,
                today |-> today, ids |-> due_this_month(records, today)]
    /\ UNCHANGED <<auth, businesses, types, tx, recs>>

SpecMonth == InitMonth /\ [][\E today \in MonthTodays : DueThisMonth(today)]_vars

(* ---- RecurrenceCalculator: next_due ---- *)
(* Dates are day numbers.  The occurrences are anchor, anchor + 7 * n,       *)
(* anchor + 2 * 7 * n, ...; the walk stops at the first one after the        *)
(* reference.  A non-positive interval is a RecurrencePatternError.          *)
RECURSIVE FirstAfter(_, _, _)
FirstAfter(occurrence, days, reference) ==
    IF occurrence > reference THEN occurrence
    ELSE FirstAfter(occurrence + days, days, reference)

next_due_NotStrict(anchor, interval_weeks, reference) ==
    IF interval_weeks <= 0
    THEN [error |-> "RecurrencePatternError", date |-> NULL]
    ELSE [error |-> "none", date |-> FirstAfter(anchor, interval_weeks * 7, reference - 1)]

(* On error no date is returned (date is NULL).                              *)
next_due(anchor, interval_weeks, reference) ==
    IF interval_weeks <= 0
    THEN [error |-> "RecurrencePatternError", date |-> NULL]
    ELSE [error |-> "none", date |-> FirstAfter(anchor, interval_weeks * 7, reference)]

(* The fallback of a caller that needs a value: the anchor, unchanged.       *)
next_due_or_anchor_Reference(anchor, interval_weeks, reference) ==
    LET r == next_due(anchor, interval_weeks, reference)
    IN  IF r.error # "none" THEN reference ELSE r.date

next_due_or_anchor(anchor, interval_weeks, reference) ==
    LET r == next_due(anchor, interval_weeks, reference)
    IN  IF r.error # "none" THEN anchor ELSE r.date

MaxIntervalWeeks == 3
MaxDay == 60

DueAnchors == {10, 11, 31}

InitDue ==
    /\ businesses = {}
    /\ types = << >>
    /\ tx = [s \in Sessions |-> Idle]
    /\ clients = << >>
    /\ users = << >>
    /\ auth_tokens = {}
    /\ sites = << >>
    /\ records = << >>
    /\ completions = << >>
    /\ last \in [op : {"request"}, anchor : DueAnchors,
                  interval_weeks : (-1)..MaxIntervalWeeks,
                  reference : 0..MaxDay, answer : {NULL}, fallback : {NULL}]

NextDue ==
    /\ last.op = "request"
    /\ last' = [last EXCEPT !.op = "next_due",
                            !.answer = next_due(last.anchor, last.interval_weeks, last.reference),
                            !.fallback = next_due_or_anchor(last.anchor, last.interval_weeks,
                                                            last.reference)]
    /\ UNCHANGED <<auth, businesses, types, tx, recs>>

SpecDue == InitDue /\ [][NextDue]_vars

(* ---- RecurrenceCalculator on calendar dates ---- *)
(* The proleptic Gregorian calendar of the years the requests span; day 1    *)
(* is 2024-01-01.                                                            *)
DaysInMonth_NoLeap(year, month) ==
    IF month = 2 THEN 28
    ELSE IF month \in {4, 6, 9, 11} THEN 30 ELSE 31

DaysInMonth(year, month) ==
    IF month = 2
    THEN IF (year % 4 = 0 /\ year % 100 # 0) \/ year % 400 = 0 THEN 29 ELSE 28
    ELSE IF month \in {4, 6, 9, 11} THEN 30 ELSE 31

CalendarDates ==
    { d \in (2024..2025) \X (1..12) \X (1..31) : d[3] <= DaysInMonth(d[1], d[2]) }

ToDay(date) ==
    LET RECURSIVE BeforeMonth(_, _)
        BeforeMonth(y, m) == IF m = 1 THEN 0
                             ELSE BeforeMonth(y, m - 1) + DaysInMonth(y, m - 1)
        RECURSIVE BeforeYear(_)
        BeforeYear(y) == IF y <= 2024 THEN 0
                         ELSE BeforeYear(y - 1) + BeforeMonth(y - 1, 12) + DaysInMonth(y - 1, 12)
    IN  BeforeYear(date[1]) + BeforeMonth(date[1], date[2]) + date[3]

FromDay(n) == CHOOSE d \in CalendarDates : ToDay(d) = n

(* next_due on calendar dates.                                               *)
next_due_date(anchor, interval_weeks, reference) ==
    LET r == next_due(ToDay(anchor), interval_weeks, ToDay(reference))
    IN  [error |-> r.error, date |-> FromDay(r.date)]

CalReferences == { d \in CalendarDates : d[1] = 2024 }

InitCal ==
    /\ businesses = {}
    /\ types = << >>
    /\ tx = [s \in Sessions |-> Idle]
    /\ clients = << >>
    /\ users = << >>
    /\ auth_tokens = {}
    /\ sites = << >>
    /\ records = << >>
    /\ completions = << >>
    /\ last \in [op : {"request"}, anchor : {<<2024, 1, 1>>, <<2024, 2, 29>>},
                  interval_weeks : {13}, reference : CalReferences, answer : {NULL}]

NextDueDate ==
    /\ last.op = "request"
    /\ last' = [last EXCEPT !.op = "next_due",
                            !.answer = next_due_date(last.anchor, last.interval_weeks,
                                                     last.reference)]
    /\ UNCHANGED <<auth, businesses, types, tx, recs>>

SpecCal == InitCal /\ [][NextDueDate]_vars

(* Records and the catalog together: records are created and updated while   *)
(* the super admin renames, deletes and restores types.                      *)
NextRef ==
    \/ \E c \in WriteCallers, p \in RecordPayloads :
          p.anchor_date = FirstAnchor /\ create_equipment_record(c, p)
    \/ \E c \in WriteCallers, id \in 1..MaxRecords, p \in RecordUpdatePayloads :
          update_equipment_record(c, id, p)
    \/ \E id \in 1..MaxTypes, p \in UpdatePayloads :
          p.fields = {"name"} /\ update_equipment_type(SuperAdmin, id, p)
    \/ \E id \in 1..MaxTypes : delete_equipment_type(SuperAdmin, id, NULL, FALSE, 0)
    \/ \E id \in 1..MaxTypes : restore_equipment_type(SuperAdmin, id)

SpecRef == InitRec /\ [][NextRef]_vars

(* ============================== properties ============================ *)
LiveGlobal(rows, X) ==
    { i \in 1..Len(rows) : rows[i].name = X /\ rows[i].business_id = NULL /\ Live(rows, i) }

LiveOwned(rows, B, X) ==
    { i \in 1..Len(rows) : rows[i].name = X /\ rows[i].business_id = B /\ Live(rows, i) }

(* The step is a completed delete_from_business(B) on a live global type.    *)
ConsolidationDone ==
    /\ last'.op = "delete_from_business"
    /\ last'.status = 204
    /\ types[last'.id].business_id = NULL

(* C1: for every business B and name X with a live global X or a live        *)
(* B-owned X, the catalog resolved for B holds exactly one type named X.     *)
C1_ExactlyOnePerName ==
    \A B \in businesses, X \in Names :
        (LiveGlobal(types, X) # {} \/ LiveOwned(types, B, X) # {})
            => Cardinality(CatalogNamed(types, B, X)) = 1

(* C2 as stated: when a live global X and a live B-owned X both exist, the   *)
(* catalog of B returns the row owned by B and not the global row.           *)
C2_TenantRowShadowsGlobal ==
    \A B \in businesses, X \in Names :
        (LiveGlobal(types, X) # {} /\ LiveOwned(types, B, X) # {})
            => /\ LiveOwned(types, B, X) \subseteq resolve_catalog(types, B)
               /\ LiveGlobal(types, X) \cap resolve_catalog(types, B) = {}

(* C2 amended: when a live global X and a live B-owned X both pass the       *)
(* listing's active filter, the listing for B returns the global row(s)      *)
(* named X and not the row owned by B; in particular so does the resolved    *)
(* catalog (active_only = FALSE).                                            *)
Listed(rows, i, active_only) == Live(rows, i) /\ (active_only => rows[i].active = 1)

C2_GlobalRowShadowsTenant ==
    \A B \in businesses, X \in Names, active_only \in BOOLEAN :
        LET global == { i \in LiveGlobal(types, X) : Listed(types, i, active_only) }
            owned == { i \in LiveOwned(types, B, X) : Listed(types, i, active_only) }
        IN  (global # {} /\ owned # {})
                => /\ global \subseteq list_equipment_types(types, B, active_only)
                   /\ owned \cap list_equipment_types(types, B, active_only) = {}

C2_Witness ==
    \E B \in businesses, X \in Names :
        /\ LiveGlobal(types, X) # {}
        /\ LiveOwned(types, B, X) # {}
        /\ last.op = "create_type" /\ last.status = 201

(* C3: after a completed delete_from_business(B) on a live global X, every   *)
(* business other than B that existed at the call has a live type named X    *)
(* in its resolved catalog.                                                  *)
C3_OthersKeepType ==
    \A id \in TypeIds, B \in BusinessIds, fail_at \in 0..(MaxBusinesses + 1) :
        (Live(types, id) /\ types[id].business_id = NULL) =>
            LET r == DeleteFromBusiness(types, SuperAdmin.username, id, B, fail_at)
            IN  r.status = 204 =>
                    \A b \in businesses \ {B} :
                        CatalogNamed(r.rows, b, types[id].name) # {}

C3_Witness ==
    /\ last.op = "delete_from_business" /\ last.status = 204
    /\ types[last.id].business_id = NULL
    /\ \E b \in businesses \ {last.business_id} :
          /\ LiveOwned(types, b, types[last.id].name) # {}
          /\ CatalogNamed(types, b, types[last.id].name) # {}

(* C4 as stated: after a completed delete_from_business(B) on a global X,    *)
(* the catalog resolved for B holds no type named X.                         *)
C4_RequesterLosesType ==
    [][ConsolidationDone =>
          CatalogNamed(types', last'.business_id, types[last'.id].name) = {}]_vars

(* C5: a delete_from_business that fails at any step leaves the committed    *)
(* store exactly as it was before the call.                                  *)
C5_FailureRollsBack ==
    \A id \in TypeIds, B \in BusinessIds, fail_at \in 0..(MaxBusinesses + 1) :
        Live(types, id) =>
            LET r == DeleteFromBusiness(types, SuperAdmin.username, id, B, fail_at)
            IN  r.status # 204 => r.rows = types

C5_Witness ==
    /\ last.op = "delete_from_business" /\ last.status = 500
    /\ types[last.id].business_id = NULL /\ Live(types, last.id)
    /\ \E b \in businesses \ {last.business_id} :
          ~ \E i \in TypeIds : types[i].business_id = b /\ types[i].name = types[last.id].name

(* C6 as stated: under any interleaving of a delete_from_business(B) on a    *)
(* global X with other requests, no business loses its visible type named X  *)
(* in the committed store unless the committing request deletes X for it.    *)
C6_NoSilentLoss ==
    [][\A b \in businesses, X \in Names :
          (CatalogNamed(types, b, X) # {} /\ CatalogNamed(types', b, X) = {})
              => (last'.op = "delete_from_business" /\ last'.business_id = b)]_vars

(* C7 as stated: create_type in a scope (Global or a business) that already  *)
(* holds a type of that name fails with DuplicateNameError (400) and         *)
(* inserts no row.                                                           *)
SameScopeNamed(rows, business_id, name) ==
    { i \in 1..Len(rows) : rows[i].business_id = business_id /\ rows[i].name = name }

C7_DuplicateRejected ==
    [][\A c \in WriteCallers, p \in CreatePayloads :
          (/\ ValidCaller(c)
           /\ create_equipment_type(c, p)
           /\ SameScopeNamed(types, CreateScope(c, p), p.name) # {})
              => (last'.status = 400 /\ types' = types)]_vars

(* C8: create_type for a business B with a name X that exists only in other  *)
(* scopes succeeds and inserts the row.                                      *)
C8_OtherScopesDoNotConflict ==
    \A c \in WriteCallers, p \in CreatePayloads :
        (/\ ValidCaller(c)
         /\ CreateScope(c, p) \in businesses
         /\ SameScopeNamed(types, CreateScope(c, p), p.name) = {}
         /\ \E i \in TypeIds : types[i].name = p.name)
            => \A r \in CreateTypeResults(types, businesses, c, p) :
                  /\ r.status = 201
                  /\ Len(r.rows) = Len(types) + 1
                  /\ r.rows[Len(r.rows)].business_id = CreateScope(c, p)
                  /\ r.rows[Len(r.rows)].name = p.name
                  /\ SubSeq(r.rows, 1, Len(types)) = types

C8_Witness ==
    /\ last.op = "create_type" /\ last.status = 201 /\ last.business_id # NULL
    /\ \E i \in TypeIds :
          /\ i # last.id
          /\ types[i].name = types[last.id].name
          /\ types[i].business_id = NULL

(* C9 as stated: with two callers running create_type concurrently, the      *)
(* store never holds two rows of the same name in the same scope.            *)
C9_OneRowPerScopeAndName ==
    \A i, j \in TypeIds :
        (types[i].business_id = types[j].business_id /\ types[i].name = types[j].name)
            => i = j

(* C10: a completed delete_from_all on a live type named X tombstones every  *)
(* live row named X and changes no other row.                                *)
C10_DeleteFromAll ==
    \A id \in TypeIds :
        Live(types, id) =>
            LET after == DeleteFromAll(types, SuperAdmin.username, types[id].name)
            IN  /\ Len(after) = Len(types)
                /\ \A i \in TypeIds :
                      IF types[i].name = types[id].name /\ Live(types, i)
                      THEN /\ after[i].deleted_at # NULL
                           /\ [after[i] EXCEPT !.deleted_at = NULL, !.deleted_by = NULLTEXT]
                                 = types[i]
                      ELSE after[i] = types[i]

C10_Witness ==
    /\ last.op = "delete_from_all" /\ last.status = 204
    /\ \E i, j \in TypeIds :
          /\ i # j
          /\ types[i].name = types[j].name
          /\ types[i].business_id = NULL /\ types[j].business_id # NULL
          /\ ~ Live(types, i) /\ ~ Live(types, j)

(* The row with its tombstone columns cleared.                               *)
Untombstoned(row) == [row EXCEPT !.deleted_at = NULL, !.deleted_by = NULLTEXT]

(* C11: delete_type in mode delete_specific on a live type T sets the        *)
(* tombstone (deleted_at, deleted_by) of row T only: no other row changes,   *)
(* also not a row of the same name in another scope, and no row is created.  *)
C11_DeleteSpecificFrame ==
    \A c \in WriteCallers, id \in TypeIds :
        (/\ Live(types, id)
         /\ DeleteMode(c, NULL, FALSE) \in {"delete_specific", "delete_own"})
            => LET after == DeleteSpecific(types, c.username, id)
               IN  /\ Len(after) = Len(types)
                   /\ after[id].deleted_at # NULL
                   /\ after[id].deleted_by = c.username
                   /\ Untombstoned(after[id]) = types[id]
                   /\ \A i \in TypeIds \ {id} : after[i] = types[i]

C11_Witness ==
    /\ last.op = "delete_specific" /\ last.status = 204
    /\ ~ Live(types, last.id)
    /\ \E j \in TypeIds :
          /\ types[j].name = types[last.id].name
          /\ types[j].business_id # types[last.id].business_id
          /\ Live(types, j)

(* C12: restore_type(T) answers 400 (not deleted) and changes nothing when   *)
(* T exists without a tombstone; when T is tombstoned it clears deleted_at   *)
(* and deleted_by of T and changes no other row.                             *)
C12_Restore ==
    \A id \in TypeIds :
        LET r == RestoreTypeResult(types, SuperAdmin, id)
        IN  IF Live(types, id)
            THEN r.status = 400 /\ r.rows = types
            ELSE /\ r.status = 204
                 /\ Len(r.rows) = Len(types)
                 /\ r.rows[id].deleted_at = NULL
                 /\ r.rows[id].deleted_by = NULLTEXT
                 /\ Untombstoned(types[id]) = r.rows[id]
                 /\ \A i \in TypeIds \ {id} : r.rows[i] = types[i]

C12_Witness ==
    /\ last.op = "restore_type" /\ last.status = 204
    /\ Live(types, last.id) /\ types[last.id].deleted_by = NULLTEXT
    /\ \E j \in TypeIds : ~ Live(types, j)

(* C13: for every live type T, a delete of T (by id, from all businesses,    *)
(* or from a business) that tombstones T, followed by restore_type(T),       *)
(* yields row T equal to T in every field, with the tombstone cleared.       *)
RoundTrip(deleted, id) == RestoreTypeResult(deleted, SuperAdmin, id).rows[id]

C13_DeleteRestoreRoundTrip ==
    \A c \in WriteCallers, id \in TypeIds :
        Live(types, id) =>
            /\ RoundTrip(DeleteSpecific(types, c.username, id), id) = types[id]
            /\ RoundTrip(DeleteFromAll(types, c.username, types[id].name), id) = types[id]
            /\ \A B \in BusinessIds :
                  LET d == DeleteFromBusiness(types, c.username, id, B, 0)
                  IN  (d.status = 204 /\ ~ Live(d.rows, id))
                          => RoundTrip(d.rows, id) = types[id]

C13_Witness ==
    /\ last.op = "restore_type" /\ last.status = 204
    /\ Live(types, last.id)
    /\ types[last.id].active = 0 /\ types[last.id].business_id # NULL

(* The stores the grouped view is read on: the store, and the store after    *)
(* any create_type request.                                                  *)
GroupedStores ==
    {types} \cup
    UNION { { r.rows : r \in CreateTypeResults(types, businesses, c, p) }
            : c \in { x \in WriteCallers : ValidCaller(x) }, p \in CreatePayloads }

ListedNames(rows, active_only) ==
    { rows[i].name : i \in { j \in 1..Len(rows) : Listed(rows, j, active_only) } }

Owners(rows, name, active_only) ==
    { rows[i].business_id :
        i \in { j \in 1..Len(rows) : Listed(rows, j, active_only) /\ rows[j].name = name } }

ListSet(list) == { list[k] : k \in 1..Len(list) }

OneEntryPerName(view, names) ==
    /\ { e.name : e \in view } = names
    /\ \A e, f \in view : e.name = f.name => e = f
    /\ \A e \in view : Len(e.businesses) = Cardinality(ListSet(e.businesses))

(* C14 as stated: the grouped view has exactly one entry per name among the  *)
(* non-tombstoned types, and the entry's business list is the set of owners  *)
(* of the non-tombstoned rows of that name (NULL: 'All Businesses').         *)
C14_GroupedReportsOwners ==
    LET view == list_equipment_types_grouped(types, businesses, FALSE)
    IN  /\ OneEntryPerName(view, ListedNames(types, FALSE))
        /\ \A e \in view : ListSet(e.businesses) = Owners(types, e.name, FALSE)

(* C14 amended: one entry per listed name; the business list is the set of   *)
(* owners of the listed rows of that name, each once, except that a name     *)
(* with no global row that every business owns is reported as the single     *)
(* 'All Businesses' entry.                                                   *)
C14_GroupedOwnersOrAll ==
    \A rows \in GroupedStores, active_only \in BOOLEAN :
        LET view == list_equipment_types_grouped(rows, businesses, active_only)
        IN  /\ OneEntryPerName(view, ListedNames(rows, active_only))
            /\ \A e \in view :
                  LET owners == Owners(rows, e.name, active_only)
                  IN  ListSet(e.businesses) =
                          IF NULL \notin owners /\ owners = businesses
                          THEN {NULL} ELSE owners

(* A name that is global and has an override in two businesses at once.      *)
C14_Witness ==
    /\ last.op = "create_type" /\ last.status = 201
    /\ \E rows \in GroupedStores, X \in Names :
          /\ LiveGlobal(rows, X) # {}
          /\ \A b \in BusinessIds : LiveOwned(rows, b, X) # {}
          /\ \E e \in list_equipment_types_grouped(rows, businesses, FALSE) :
                e.name = X /\ Len(e.businesses) = MaxBusinesses + 1

(* ---------------------- records: helpers of the claims ----------------- *)
RecordIds == 1..Len(records)

ValidCallers == { c \in Callers : ValidCaller(c) }

(* Callers whose context is one business: a business admin, or a super       *)
(* admin who has switched to a business.                                     *)
ScopedCallers == { c \in ValidCallers : RecordContext(c) # NULL }

CompletionPayloadsOn(id) == { p \in CompletionPayloads : p.equipment_record_id = id }

(* C15 as stated: a soft-deleted type or record is never returned by a read  *)
(* nor accepted by an update or by record_completion unless the caller is    *)
(* privileged and has asked for deleted entities.  No request can ask for    *)
(* them, so a tombstoned entity is answered with 404 to every caller.        *)
C15_DeletedBehaveAbsent ==
    \A c \in ValidCallers :
        /\ \A id \in RecordIds :
              records[id].deleted_at # NULL =>
                  /\ get_equipment_record(records, c, id) = 404
                  /\ \A p \in RecordUpdatePayloads :
                        UpdateRecordResult(records, c, id, p).status = 404
                  /\ \A p \in CompletionPayloadsOn(id) :
                        CreateCompletionResult(completions, records, c, p).status = 404
        /\ \A id \in TypeIds :
              types[id].deleted_at # NULL =>
                  /\ get_equipment_type(types, c, id) = 404
                  /\ ~ UpdateVisible(c, id)

(* C16: the ids of the records, and of the completions, of businesses other  *)
(* than B.                                                                   *)
OtherRecords(B) == { i \in RecordIds : ClientBusiness(records, i) # B }

OtherCompletions(B) ==
    { k \in CompletionIds(completions) :
        ClientBusiness(records, completions[k].equipment_record_id) # B }

Todays == AnchorDates

UpcomingParams == { <<NULL, NULL, NoWeeks>>, <<10, 20, NoWeeks>>, <<NULL, NULL, Weeks(1)>> }

(* The record queries with a business context, and the commands, stay        *)
(* inside business B.                                                        *)
RecordsScoped(c, B) ==
    /\ \A id \in RecordIds :
          get_equipment_record(records, c, id) = 200 => id \notin OtherRecords(B)
    /\ \A client_id \in {NULL} \cup (1..Len(clients)), active_only \in {"None", "true", "false"} :
          list_equipment_records(records, c, client_id, active_only) \cap OtherRecords(B) = {}
    /\ \A today \in Todays :
          /\ get_overdue_equipment_records(records, c, today) \cap OtherRecords(B) = {}
          /\ \A q \in UpcomingParams :
                get_upcoming_equipment_records(records, c, today, q[1], q[2], q[3])
                    \cap OtherRecords(B) = {}
    /\ \A id \in 1..MaxRecords :
          /\ \A p \in RecordUpdatePayloads :
                LET r == UpdateRecordResult(records, c, id, p)
                IN  /\ r.status = 200 => id \in RecordIds \ OtherRecords(B)
                    /\ \A i \in OtherRecords(B) : r.rows[i] = records[i]
          /\ LET r == DeleteRecordResult(records, c, id)
             IN  /\ r.status = 204 => id \in RecordIds \ OtherRecords(B)
                 /\ \A i \in OtherRecords(B) : r.rows[i] = records[i]
          /\ \A p \in CompletionPayloadsOn(id) :
                LET r == CreateCompletionResult(completions, records, c, p)
                IN  /\ r.status = 201 => id \in RecordIds \ OtherRecords(B)
                    /\ \A k \in OtherCompletions(B) : r.rows[k] = completions[k]
    /\ \A k \in 1..MaxCompletions :
          LET r == DeleteCompletionResult(completions, records, c, k)
          IN  /\ r.status = 204 => k \in CompletionIds(completions) \ OtherCompletions(B)
              /\ \A j \in OtherCompletions(B) : r.rows[j] = completions[j]

(* C16 as stated: for a caller whose context is business B, every record     *)
(* query and list_completions return only rows of B, and the commands        *)
(* succeed only on rows of B and leave the rows of other businesses alone.   *)
C16_TenantScopingEveryPath ==
    \A c \in ScopedCallers :
        /\ RecordsScoped(c, RecordContext(c))
        /\ \A id \in {NULL} \cup RecordIds, business_id_filter \in {NULL} \cup businesses :
              list_equipment_completions(completions, records, c, id, business_id_filter).ids
                  \cap OtherCompletions(RecordContext(c)) = {}

(* C16 amended: as stated, except that list_completions of a super admin     *)
(* who passes business_id_filter returns the completions of the business     *)
(* named by the filter instead of those of the context.                      *)
C16_TenantScopingWithFilter ==
    \A c \in ScopedCallers :
        /\ RecordsScoped(c, RecordContext(c))
        /\ \A id \in {NULL} \cup RecordIds, business_id_filter \in {NULL} \cup businesses :
              list_equipment_completions(completions, records, c, id, business_id_filter).ids
                  \cap OtherCompletions(
                          IF c.is_super_admin /\ business_id_filter # NULL
                          THEN business_id_filter ELSE RecordContext(c)) = {}

C16_Witness ==
    /\ last.op = "create_completion" /\ last.status = 201
    /\ completions # << >> /\ completions[1] # NoCompletion
    /\ \E i, j \in RecordIds :
          /\ ClientBusiness(records, i) # ClientBusiness(records, j)
          /\ records[i].deleted_at = NULL /\ records[j].deleted_at = NULL

(* C17 as stated: every non-deleted record references a non-tombstoned type  *)
(* that is global or owned by the business of the record's client.           *)
C17_RecordTypeVisible ==
    \A i \in RecordIds :
        records[i].deleted_at = NULL
            => TypeVisibleTo(records[i].equipment_type_id, ClientBusiness(records, i))

(* A create or update request that names a live site of another client.      *)
ForeignSite(site_id, client_id) == LiveSite(site_id) /\ sites[site_id].client_id # client_id

(* C18: the site of every record belongs to the record's client; a           *)
(* create_record or update_record that names a site of another client is     *)
(* answered 400 (site does not belong to the client), or with the error of   *)
(* an earlier check, and leaves the records unchanged.                       *)
C18_SiteBelongsToClient ==
    /\ \A i \in RecordIds : sites[records[i].site_id].client_id = records[i].client_id
    /\ \A c \in ValidCallers, p \in RecordPayloads :
          ForeignSite(p.site_id, p.client_id) =>
              LET r == CreateRecordResult(records, c, p)
              IN  /\ r.rows = records
                  /\ r.status \in {400, 403, 404}
                  /\ (c.is_super_admin \/ clients[p.client_id].business_id = c.business_id)
                        => /\ r.status = 400
                           /\ r.detail = "Site does not belong to the specified client"
    /\ \A c \in ValidCallers, id \in RecordIds, p \in RecordUpdatePayloads :
          ("site_id" \in p.fields /\ ForeignSite(p.site_id, records[id].client_id)) =>
              LET r == UpdateRecordResult(records, c, id, p)
              IN  /\ r.rows = records
                  /\ r.status \in {400, 404}
                  /\ FindRecord(records, c, id)
                        => /\ r.status = 400
                           /\ r.detail = "Site does not belong to the same client"

C18_Witness ==
    /\ last.op = "update_record" /\ last.status = 200
    /\ records[last.id].site_id = 2
    /\ \E j \in RecordIds : records[j].client_id # records[last.id].client_id

(* A create_record request that passes the client, site and type checks.     *)
RecordRequestValid(c, p) ==
    /\ c.is_super_admin \/ clients[p.client_id].business_id = c.business_id
    /\ LiveSite(p.site_id) /\ sites[p.site_id].client_id = p.client_id
    /\ TypeVisibleTo(p.equipment_type_id, clients[p.client_id].business_id)

IsConflict(r) == r.status = 400 /\ r.detail = "already exists in this site"

(* C19 as stated: create_record is answered with a conflict, and inserts     *)
(* nothing, when a record of the same site, type and anchor date exists,     *)
(* and is not answered with a conflict when none exists.                     *)
C19_ConflictOnSiteTypeAnchor ==
    \A c \in ValidCallers, p \in RecordPayloads :
        RecordRequestValid(c, p) =>
            LET r == CreateRecordResult(records, c, p)
                identical == \E i \in RecordIds :
                                /\ records[i].site_id = p.site_id
                                /\ records[i].equipment_type_id = p.equipment_type_id
                                /\ records[i].anchor_date = p.anchor_date
            IN  IF identical THEN IsConflict(r) /\ r.rows = records
                ELSE ~ IsConflict(r)

(* C19 amended: create_record is answered with a conflict, and inserts       *)
(* nothing, when a record (tombstoned or not) of the same site has the same  *)
(* equipment name, and is not answered with a conflict when none has.        *)
C19_ConflictOnSiteName ==
    \A c \in ValidCallers, p \in RecordPayloads :
        RecordRequestValid(c, p) =>
            LET r == CreateRecordResult(records, c, p)
                same_name == \E i \in RecordIds :
                                /\ records[i].site_id = p.site_id
                                /\ records[i].equipment_name = p.equipment_name
            IN  IF same_name THEN IsConflict(r) /\ r.rows = records
                ELSE /\ ~ IsConflict(r)
                     /\ r.rows = Append(records, RecordRow(p))

(* Two records of one site, type and anchor date, and a tombstoned record    *)
(* whose name a request may carry again.                                     *)
C19_Witness ==
    /\ last.op = "create_record" /\ last.status = 201
    /\ \E i, j \in RecordIds :
          /\ i # j
          /\ records[i].site_id = records[j].site_id
          /\ records[i].equipment_type_id = records[j].equipment_type_id
          /\ records[i].anchor_date = records[j].anchor_date
          /\ records[i].deleted_at # NULL

(* delete_equipment_record finds the record for the caller.                  *)
DeleteFinds(c, id) ==
    /\ records[id].deleted_at = NULL
    /\ (RecordContext(c) = NULL \/ ClientBusiness(records, id) = RecordContext(c))

(* C20: delete_record on a visible live record sets only its tombstone;      *)
(* on a tombstoned record it answers 404; restore_record on a tombstoned     *)
(* record clears the tombstone; on a live record it answers 400 and changes  *)
(* nothing.                                                                  *)
C20_RecordSoftDeleteLifecycle ==
    \A id \in RecordIds :
        /\ \A c \in ValidCallers :
              LET r == DeleteRecordResult(records, c, id)
              IN  /\ DeleteFinds(c, id) =>
                        /\ r.status = 204
                        /\ Len(r.rows) = Len(records)
                        /\ r.rows[id].deleted_at # NULL
                        /\ r.rows[id].deleted_by = c.username
                        /\ Untombstoned(r.rows[id]) = records[id]
                        /\ \A i \in RecordIds \ {id} : r.rows[i] = records[i]
                  /\ records[id].deleted_at # NULL =>
                        r.status = 404 /\ r.rows = records
        /\ \A c \in { x \in ValidCallers : x.is_super_admin } :
              LET r == RestoreRecordResult(records, c, id)
              IN  IF records[id].deleted_at # NULL
                  THEN /\ r.status = 204
                       /\ r.rows[id] = Untombstoned(records[id])
                       /\ Len(r.rows) = Len(records)
                       /\ \A i \in RecordIds \ {id} : r.rows[i] = records[i]
                  ELSE r.status = 400 /\ r.rows = records

C20_Witness ==
    /\ last.op = "restore_record" /\ last.status = 204
    /\ records[last.id].deleted_at = NULL
    /\ \E j \in RecordIds : records[j].deleted_at # NULL

(* ------------------------- completions: the claims --------------------- *)
(* Callers without administrative privilege: the users of a business.        *)
Users ==
    { [username |-> "user", is_admin |-> FALSE, is_super_admin |-> FALSE, business_id |-> b]
        : b \in BusinessIds }

AnyCallers == ValidCallers \cup { u \in Users : ValidCaller(u) }

CompletionRow(payload, current_user) ==
    [equipment_record_id |-> payload.equipment_record_id,
     due_date |-> payload.due_date,
     interval_weeks |-> payload.interval_weeks,
     completed_by_user |-> current_user.username]

(* A step of create_equipment_completion or delete_equipment_completion      *)
(* that was answered with success.                                           *)
CompletionStep == completions' # completions

RecordedOne ==
    \E c \in AnyCallers, p \in CompletionPayloads :
        completions' = Append(completions, CompletionRow(p, c))

(* C21: record_completion and delete_completion change no field of any      *)
(* equipment record; a successful record_completion appends exactly one      *)
(* completion row that carries the due date and the interval of the request. *)
C21_CompletionsLeaveRecords ==
    /\ [](\A c \in AnyCallers, p \in CompletionPayloads :
            LET r == CreateCompletionResult(completions, records, c, p)
            IN  r.status = 201 =>
                   /\ Len(r.rows) = Len(completions) + 1
                   /\ r.rows[Len(r.rows)].due_date = p.due_date
                   /\ r.rows[Len(r.rows)].interval_weeks = p.interval_weeks
                   /\ r.rows[Len(r.rows)].equipment_record_id = p.equipment_record_id
                   /\ \A k \in 1..Len(completions) : r.rows[k] = completions[k])
    /\ [][CompletionStep =>
            /\ records' = records
            /\ Len(completions') > Len(completions) => RecordedOne]_vars

C21_Witness ==
    /\ last.op = "delete_completion" /\ last.status = 204
    /\ completions = <<NoCompletion>>
    /\ \E i \in RecordIds : records[i].deleted_at = NULL /\ records[i].due_date = DueDate

(* C22 as stated: record_completion succeeds only when the record exists,    *)
(* is in the caller's tenant scope and is visible to the caller (it is not   *)
(* tombstoned: no request can ask for deleted entities); otherwise it is     *)
(* answered 404 and appends no completion row.                               *)
C22_CompletionNeedsVisibleRecord ==
    \A c \in AnyCallers, p \in CompletionPayloads :
        LET r  == CreateCompletionResult(completions, records, c, p)
            id == p.equipment_record_id
            ok == /\ id \in RecordIds
                  /\ (RecordContext(c) = NULL \/ ClientBusiness(records, id) = RecordContext(c))
                  /\ records[id].deleted_at = NULL
        IN  IF ok THEN r.status = 201
            ELSE r.status = 404 /\ r.rows = completions

(* C23 as stated: delete_completion by a caller without administrative       *)
(* privilege is rejected and the completion row remains in the ledger.       *)
C23_DeleteCompletionAdminOnly ==
    \A u \in AnyCallers, k \in CompletionIds(completions) :
        ~ u.is_admin =>
            LET r == DeleteCompletionResult(completions, records, u, k)
            IN  r.status >= 400 /\ r.rows = completions

(* C24: the ledger is append-only: in every step of record_completion,       *)
(* update_record, delete_record, restore_record, delete_type, restore_type   *)
(* and delete_completion, every completion row keeps its record id, due      *)
(* date, interval and actor, and a row leaves the ledger only in a           *)
(* successful delete_completion of that row.                                 *)
C24_LedgerAppendOnly ==
    /\ [](\A c \in AnyCallers, p \in CompletionPayloads, k \in CompletionIds(completions) :
            CreateCompletionResult(completions, records, c, p).rows[k] = completions[k])
    /\ [][/\ Len(completions') >= Len(completions)
          /\ \A k \in CompletionIds(completions) :
                \/ completions'[k] = completions[k]
                \/ /\ completions'[k] = NoCompletion
                   /\ last'.op = "delete_completion" /\ last'.status = 204 /\ last'.id = k
                   /\ records' = records /\ types' = types]_vars

C24_Witness ==
    /\ CompletionIds(completions) # {}
    /\ \E k \in CompletionIds(completions) :
          /\ records[completions[k].equipment_record_id].deleted_at # NULL
          /\ types[records[completions[k].equipment_record_id].equipment_type_id].deleted_at # NULL
          /\ completions[k].completed_by_user = LedgerAdmin.username
    /\ last.op = "update_record" /\ last.status = 200

(* --------------------- window queries: the claims ---------------------- *)
(* The records a caller's queries may return: not tombstoned, and of the     *)
(* caller's business unless the caller is a super admin viewing all          *)
(* businesses.                                                               *)
InScope(c) ==
    { i \in RecordIds :
        /\ records[i].deleted_at = NULL
        /\ (RecordContext(c) = NULL \/ ClientBusiness(records, i) = RecordContext(c)) }

(* C25: overdue(today) returns exactly the in-scope, non-deleted records     *)
(* that are active and have a due date earlier than today: a record due on   *)
(* today - 1 is included, a record due on today is not.                      *)
C25_OverdueExact ==
    \A c \in AnyCallers, today \in WinTodays :
        LET ids == get_overdue_equipment_records(records, c, today)
        IN  /\ ids = { i \in InScope(c) : /\ records[i].active = 1
                                          /\ records[i].due_date # NULL
                                          /\ records[i].due_date < today }
            /\ \A i \in InScope(c) :
                  records[i].active = 1 =>
                      /\ records[i].due_date = today - 1 => i \in ids
                      /\ records[i].due_date = today => i \notin ids

C25_Witness ==
    /\ last.op = "overdue" /\ last.today = 20 /\ last.ids = {2}
    /\ records[1].due_date = 20 /\ records[1].active = 1 /\ records[1].deleted_at = NULL
    /\ records[2].due_date = 19 /\ ClientBusiness(records, 2) = last.business_id

(* The active in-scope records with a due date in [start, end].              *)
DueWithin(c, start, end) ==
    { i \in InScope(c) : /\ records[i].active = 1
                         /\ records[i].due_date # NULL
                         /\ start <= records[i].due_date
                         /\ records[i].due_date <= end }

SuppliedWindows == { d \in WinDates : d[1] # NULL /\ d[2] # NULL }

(* C26: upcoming(start, end) returns exactly the in-scope, non-deleted       *)
(* active records with start <= due_date <= end: a record due on start or    *)
(* on end is included, a record due on end + 1 is not.                       *)
C26_UpcomingInclusive ==
    \A c \in AnyCallers, today \in WinTodays, d \in SuppliedWindows :
        LET ids == get_upcoming_equipment_records(records, c, today, d[1], d[2], NoWeeks)
        IN  /\ ids = DueWithin(c, d[1], d[2])
            /\ \A i \in InScope(c) :
                  records[i].active = 1 =>
                      /\ records[i].due_date \in {d[1], d[2]} => i \in ids
                      /\ records[i].due_date = d[2] + 1 => i \notin ids

C26_Witness ==
    /\ last.op = "upcoming" /\ last.weeks = NoWeeks
    /\ last.start_date = 20 /\ last.end_date = 27 /\ last.ids = {1}
    /\ records[1].due_date = 27
    /\ records[2].due_date = 34 /\ ClientBusiness(records, 2) = last.business_id

(* The window queries answered so far in the behaviour: `last` holds the     *)
(* request and the ids returned.                                             *)
AnsweredDueWithin(start, end) ==
    { i \in RecordIds :
        /\ records[i].deleted_at = NULL
        /\ (last.business_id = NULL \/ ClientBusiness(records, i) = last.business_id)
        /\ records[i].active = 1
        /\ records[i].due_date # NULL
        /\ start <= records[i].due_date
        /\ records[i].due_date <= end }

(* C27 as stated: with only weeks = w supplied, upcoming returns the         *)
(* records due in [today, today + 7 * w]; with neither weeks nor dates       *)
(* supplied, the records due in [today, today + 14].                         *)
C27_UpcomingWindowFromWeeks ==
    (last.op = "upcoming" /\ last.start_date = NULL /\ last.end_date = NULL) =>
        IF last.weeks # NoWeeks
        THEN last.ids = AnsweredDueWithin(last.today, last.today + 7 * last.weeks[1])
        ELSE last.ids = AnsweredDueWithin(last.today, last.today + 14)

(* C28 as stated: a start earlier than today is clamped to today, so         *)
(* upcoming returns no record that is due before today.                      *)
C28_PastStartClamped ==
    last.op = "upcoming" =>
        \A i \in last.ids : records[i].due_date >= last.today

(* C29: due_this_month(today) returns exactly the active records whose due   *)
(* date lies in the calendar month of today; on 2024-02-29 a record due      *)
(* 2024-02-29 is included and a record due 2024-03-01 is excluded.           *)
C29_DueThisMonthCalendar ==
    /\ \A today \in MonthTodays :
          due_this_month(records, today)
              = { i \in RecordIds : /\ records[i].active = 1
                                    /\ records[i].due_date # NoDate
                                    /\ records[i].due_date[1] = today[1]
                                    /\ records[i].due_date[2] = today[2] }
    /\ \A i \in RecordIds :
          records[i].active = 1 =>
              /\ records[i].due_date = <<2024, 2, 29>>
                    => i \in due_this_month(records, <<2024, 2, 29>>)
              /\ records[i].due_date = <<2024, 3, 1>>
                    => i \notin due_this_month(records, <<2024, 2, 29>>)

C29_Witness ==
    /\ last.op = "due_this_month" /\ last.today = <<2024, 2, 29>> /\ last.ids = {1}
    /\ records[1].due_date = <<2024, 2, 29>>
    /\ records[2].due_date = <<2024, 3, 1>>

(* C30: for a positive interval N, next_due(A, N, R) is the smallest date    *)
(* A + k * N * 7 with k >= 0 that is later than R: it is later than R, its   *)
(* distance from A is a non-negative multiple of N * 7, no earlier           *)
(* occurrence is later than R, and it is A whenever R < A.                   *)
C30_NextDueSmallestAfter ==
    (last.op = "next_due" /\ last.interval_weeks > 0) =>
        LET A == last.anchor
            D == last.interval_weeks * 7
            R == last.reference
            due == last.answer.date
        IN  /\ last.answer.error = "none"
            /\ due > R
            /\ due >= A /\ (due - A) % D = 0
            /\ \A k \in 0..MaxDay : A + k * D > R => due <= A + k * D
            /\ R < A => due = A

C30_Witness ==
    /\ last.op = "next_due" /\ last.interval_weeks = 2
    /\ last.anchor = 10 /\ last.reference = 38 /\ last.answer.date = 52

(* ------------------- RecurrenceCalculator: examples -------------------- *)
(* C31: next_due(2024-01-01, 13 weeks, 2024-06-01) = 2024-07-01; the         *)
(* occurrences after the anchor 2024-01-01 are 2024-04-01 and 2024-07-01,    *)
(* so every reference from the anchor to 2024-03-31 gives 2024-04-01 and     *)
(* every reference from 2024-04-01 to 2024-06-30 gives 2024-07-01.           *)
C31_NextDueExample ==
    (last.op = "next_due" /\ last.anchor = <<2024, 1, 1>> /\ last.interval_weeks = 13) =>
        /\ last.answer.error = "none"
        /\ last.reference = <<2024, 6, 1>> => last.answer.date = <<2024, 7, 1>>
        /\ DateBefore(last.reference, <<2024, 4, 1>>) => last.answer.date = <<2024, 4, 1>>
        /\ (~ DateBefore(last.reference, <<2024, 4, 1>>)
                /\ DateBefore(last.reference, <<2024, 7, 1>>))
              => last.answer.date = <<2024, 7, 1>>

C31_Witness ==
    /\ last.op = "next_due" /\ last.anchor = <<2024, 1, 1>> /\ last.interval_weeks = 13
    /\ last.reference = <<2024, 6, 1>> /\ last.answer.date = <<2024, 7, 1>>

(* C32: next_due with interval_weeks <= 0 fails with RecurrencePatternError  *)
(* and returns no date; a caller using the fallback gets the anchor.         *)
C32_NonPositiveIntervalFails ==
    (last.op = "next_due" /\ last.interval_weeks <= 0) =>
        /\ last.answer.error = "RecurrencePatternError"
        /\ last.answer.date = NULL
        /\ last.fallback = last.anchor

C32_Witness ==
    /\ last.op = "next_due" /\ last.interval_weeks = -1
    /\ last.anchor = 31 /\ last.reference = 40 /\ last.fallback = 31

(* ------------------ delete_from_business: the overrides ---------------- *)
(* The businesses a delete_from_business(B) on the global type X has to      *)
(* give an own row: every business other than B without a live row named X. *)
NeedsOverride(rows, B, X) ==
    { b \in businesses \ {B} : LiveOwned(rows, b, X) = {} }

(* C33: delete_from_business(B) on a live global type X creates one new row *)
(* exactly for each business other than B that has no live row named X,     *)
(* each a copy of the global row's name, interval, recurrence pattern, lead *)
(* weeks and active flag, creates no row for B and none for a business with *)
(* its own X, and then tombstones the global row; no other row changes.     *)
C33_OverridesMaterialized ==
    \A id \in TypeIds, B \in BusinessIds :
        (Live(types, id) /\ types[id].business_id = NULL) =>
            LET et == types[id]
                r == DeleteFromBusiness(types, SuperAdmin.username, id, B, 0)
                created == (Len(types) + 1)..Len(r.rows)
            IN  /\ r.status = 204
                /\ Cardinality(created) = Cardinality(NeedsOverride(types, B, et.name))
                /\ \A b \in NeedsOverride(types, B, et.name) :
                      \E i \in created :
                          r.rows[i] = NewRow(b, et.name, et.interval_weeks, et.rrule,
                                             et.default_lead_weeks, et.active)
                /\ r.rows[id] = Tombstone(et, SuperAdmin.username)
                /\ \A i \in TypeIds :
                      ~ (et.name = types[i].name /\ types[i].business_id = NULL
                            /\ Live(types, i))
                          => r.rows[i] = types[i]

(* The same effect, on the calls that complete.                              *)
C33_CompletedOverrides ==
    \A id \in TypeIds, B \in BusinessIds :
        (Live(types, id) /\ types[id].business_id = NULL) =>
            LET et == types[id]
                r == DeleteFromBusiness(types, SuperAdmin.username, id, B, 0)
                created == (Len(types) + 1)..Len(r.rows)
            IN  IF r.status = 204
                THEN /\ Cardinality(created) = Cardinality(NeedsOverride(types, B, et.name))
                     /\ \A b \in NeedsOverride(types, B, et.name) :
                           \E i \in created :
                               r.rows[i] = NewRow(b, et.name, et.interval_weeks, et.rrule,
                                                  et.default_lead_weeks, et.active)
                     /\ r.rows[id] = Tombstone(et, SuperAdmin.username)
                ELSE \E b \in NeedsOverride(types, B, et.name), i \in TypeIds :
                        /\ types[i].business_id = b
                        /\ types[i].name = et.name
                        /\ ~ Live(types, i)

(* C35: in every reachable catalog state, a delete_from_business(B) on a    *)
(* live global type X that meets no storage fault completes (204) without a *)
(* uniqueness conflict, also when a business other than B holds a           *)
(* tombstoned row named X.                                                  *)
C35_ConsolidationNeverConflicts ==
    \A id \in TypeIds, B \in BusinessIds :
        (Live(types, id) /\ types[id].business_id = NULL) =>
            /\ ~ MaterializeOverrides(types, businesses, types[id], B, 0).raised
            /\ DeleteFromBusiness(types, SuperAdmin.username, id, B, 0).status = 204

(* --------------------- name unique within the scope -------------------- *)
(* C34: in every state reached by create_type, update_type (renames         *)
(* included), seeding, delete_type in any mode and restore_type, a scope    *)
(* (Global, or one business) holds at most one row of a name, tombstoned    *)
(* rows included.                                                           *)
C34_NameUniqueInScope ==
    \A scope \in {NULL} \cup BusinessIds, X \in Names :
        Cardinality(SameScopeNamed(types, scope, X)) <= 1

(* The part of C34 the schema enforces: the scopes of the businesses.       *)
C34_NameUniqueInBusiness ==
    \A scope \in BusinessIds, X \in Names :
        Cardinality(SameScopeNamed(types, scope, X)) <= 1

(* =============== record writes, statement by statement ================= *)
(* create_equipment_record and update_equipment_record of two concurrent    *)
(* requests, each on its own pooled connection: the SELECTs up to the       *)
(* duplicate check read the committed rows, then the INSERT or UPDATE runs  *)
(* and commits.  Table equipment_record has no UNIQUE constraint, so the    *)
(* write statement itself never raises on a duplicate.                      *)
RecordIdle == [pc |-> "idle", current_user |-> SuperAdmin, id |-> NULL, payload |-> << >>]

PendingInserts == Cardinality({ s \in Sessions : tx[s].pc = "insert" })

(* create_equipment_record up to and including the duplicate check.          *)
TxCheckCreate(s, current_user, payload) ==
    LET r == CreateRecordResult(records, current_user, payload)
    IN  /\ tx[s].pc = "idle"
        /\ IF Len(r.rows) = Len(records)
           THEN UNCHANGED tx
           ELSE /\ Len(records) + PendingInserts < MaxRecords
                /\ tx' = [tx EXCEPT ![s] = [pc |-> "insert", current_user |-> current_user,
                                            id |-> NULL, payload |-> payload]]
        /\ UNCHANGED <<auth, businesses, types, last, recs>>

(* The INSERT, db.commit() and the read back of the new row.                 *)
TxInsertRecord(s) ==
    LET inserted == Append(records, RecordRow(tx[s].payload))
        status == IF get_equipment_record(inserted, tx[s].current_user, Len(inserted)) = 200
                  THEN 201 ELSE 404
    IN  /\ tx[s].pc = "insert"
        /\ records' = inserted
        /\ last' = Answered([status |-> status], "create_record", NULL)
        /\ tx' = [tx EXCEPT ![s] = RecordIdle]
        /\ UNCHANGED <<auth, businesses, types, clients, sites, completions>>

(* update_equipment_record up to and including the duplicate check.          *)
TxCheckUpdate(s, current_user, id, payload) ==
    LET r == UpdateRecordResult(records, current_user, id, payload)
    IN  /\ tx[s].pc = "idle"
        /\ IF r.detail \in {"updated"} \/ r.rows # records
           THEN tx' = [tx EXCEPT ![s] = [pc |-> "update", current_user |-> current_user,
                                         id |-> id, payload |-> payload]]
           ELSE UNCHANGED tx
        /\ UNCHANGED <<auth, businesses, types, last, recs>>

(* UPDATE equipment_record SET ... WHERE id = ?, db.commit() and the read    *)
(* back of the row.                                                          *)
TxUpdateRecord(s) ==
    LET id == tx[s].id
        updated == [records EXCEPT ![id] = ApplyRecordUpdate(@, tx[s].payload)]
    IN  /\ tx[s].pc = "update"
        /\ records' = updated
        /\ last' = Answered([status |-> get_equipment_record(updated, tx[s].current_user, id)],
                            "update_record", id)
        /\ tx' = [tx EXCEPT ![s] = RecordIdle]
        /\ UNCHANGED <<auth, businesses, types, clients, sites, completions>>

(* The racing requests: the admin of the first business on its client, with *)
(* the seeded type; records are soft-deleted by that admin in one step.      *)
RaceAdmin == CHOOSE c \in Admins : c.business_id = 1

RacePayloads ==
    { p \in RecordPayloads :
        p.client_id = 1 /\ p.equipment_type_id = 1 /\ p.anchor_date = FirstAnchor }

RaceUpdates == { p \in RecordUpdatePayloads : p.fields \cap {"site_id", "equipment_name"} # {} }

InitRace ==
    /\ businesses = BusinessIds
    /\ types = SetupTypes
    /\ last = Response("none", 0, NULL, NULL)
    /\ tx = [s \in Sessions |-> RecordIdle]
    /\ clients = SetupClients
    /\ users = << >>
    /\ auth_tokens = {}
    /\ sites = SetupSites
    /\ records = << >>
    /\ completions = << >>

SpecRace ==
    InitRace /\ [][\/ \E s \in Sessions, p \in RacePayloads : TxCheckCreate(s, RaceAdmin, p)
                   \/ \E s \in Sessions : TxInsertRecord(s)
                   \/ \E s \in Sessions, id \in 1..MaxRecords, p \in RaceUpdates :
                         TxCheckUpdate(s, RaceAdmin, id, p)
                   \/ \E s \in Sessions : TxUpdateRecord(s)
                   \/ \E id \in 1..MaxRecords : delete_equipment_record(RaceAdmin, id)]_vars

(* C36: under any sequence and interleaving of create_record and            *)
(* update_record, no two records of a site, soft-deleted ones included,     *)
(* have the same equipment name.                                            *)
C36_NameUniqueInSite ==
    \A i, j \in 1..Len(records) :
        (records[i].site_id = records[j].site_id
            /\ records[i].equipment_name = records[j].equipment_name)
                => i = j

(* ------------------- the catalog of a business admin ------------------- *)
(* A step that is a catalog request of the caller c; every response names   *)
(* the request, and that of an update or a delete the id it was given.       *)
CatalogRequestOf(c) ==
    \/ /\ last'.op = "create_type"
       /\ \E p \in CreatePayloads : create_equipment_type(c, p)
    \/ /\ last'.op = "update_type"
       /\ \E p \in UpdatePayloads : update_equipment_type(c, last'.id, p)
    \/ /\ last'.op = "delete_own"
       /\ \E q \in DeleteParams : delete_equipment_type(c, last'.id, q[1], q[2], q[3])

(* C37: an administrator who is not a super admin changes the catalog only  *)
(* inside their own business: a row their request creates is owned by their *)
(* business, an update or a delete of theirs succeeds only on a live row    *)
(* owned by their business, and no request of theirs changes or tombstones  *)
(* a global row or a row of another business.                               *)
C37_AdminStaysInOwnBusiness ==
    [][\A c \in Admins :
          (ValidCaller(c) /\ CatalogRequestOf(c)) =>
              /\ Len(types') >= Len(types)
              /\ \A i \in (Len(types) + 1)..Len(types') :
                    types'[i].business_id = get_business_id(c)
              /\ \A i \in TypeIds :
                    types'[i] # types[i] =>
                        /\ types[i].business_id = get_business_id(c)
                        /\ Live(types, i)
              /\ (last'.op \in {"update_type", "delete_own"} /\ last'.status < 300) =>
                    /\ last'.id \in TypeIds
                    /\ types[last'.id].business_id = get_business_id(c)
                    /\ Live(types, last'.id)]_vars

C37_Witness ==
    /\ last.op = "delete_own" /\ last.status = 404
    /\ last.id \in TypeIds
    /\ Live(types, last.id)
    /\ types[last.id].business_id = NULL
    /\ \E i \in TypeIds : types[i].business_id # NULL /\ types[i].deleted_by = "admin"

(* ======================== sessions and passwords ======================= *)
MaxTokens == 3

Passwords == {"pw1", "pw2"}

(* secrets.token_hex(16) of hash_password.                                   *)
Salts == {"s1", "s2"}

(* hash_password: "salt:sha256(salt + password)"; the digest is kept as the *)
(* pair it is computed from.                                                 *)
hash_password(password, salt) == [salt |-> salt, digest |-> <<salt, password>>]

verify_password(password, password_hash) ==
    <<password_hash.salt, password>> = password_hash.digest

UserRow(username, password_hash, is_admin, is_super_admin, business_id) ==
    [username |-> username, password_hash |-> password_hash, is_admin |-> is_admin,
     is_super_admin |-> is_super_admin, business_id |-> business_id]

(* The users the sessions belong to: the super admin and the admin of the   *)
(* first business, both with the first password.                            *)
SetupUsers ==
    << UserRow("superadmin", hash_password("pw1", "s1"), TRUE, TRUE, NULL),
       UserRow("admin", hash_password("pw1", "s1"), TRUE, FALSE, 1) >>

UserIds == 1..Len(users)

UserNamed(username) == { i \in UserIds : users[i].username = username }

(* create_token: the row of a new token; token stands for the fresh random  *)
(* string, expired for expires_at <= CURRENT_TIMESTAMP.                      *)
create_token(rows, token, user_id, is_super_admin, business_id) ==
    rows \cup { [token |-> token, user_id |-> user_id, is_super_admin |-> is_super_admin,
                 business_id |-> business_id, expired |-> FALSE] }

Unauthenticated ==
    [token |-> NULL, user_id |-> NULL, is_super_admin |-> FALSE, business_id |-> NULL,
     expired |-> TRUE]

(* get_current_user: the token's row, or 401.                                *)
get_current_user(rows, token) ==
    IF \E r \in rows : r.token = token /\ ~ r.expired
    THEN CHOOSE r \in rows : r.token = token /\ ~ r.expired
    ELSE Unauthenticated

InvalidateTokens_ExpiredOnly(rows, user_id) ==
    { r \in rows : r.user_id # user_id \/ ~ r.expired }

(* DELETE FROM auth_tokens WHERE user_id = ?                                 *)
InvalidateTokens(rows, user_id) == { r \in rows : r.user_id # user_id }

(* last of the session handlers: the request, its status, the user whose    *)
(* tokens it invalidated, the number of tokens issued so far and the tokens *)
(* that were in the table for a user when a request invalidated them.       *)
TokensOf(rows, user_id) == { r.token : r \in { q \in rows : q.user_id = user_id } }

Refused(op, status) == [last EXCEPT !.op = op, !.status = status, !.user_id = NULL]

Invalidated(op, user_id) ==
    [last EXCEPT !.op = op, !.status = 200, !.user_id = user_id,
                 !.revoked = @ \cup TokensOf(auth_tokens, user_id)]

catalog == <<businesses, types, tx, recs>>

login(payload) ==
    LET found == UserNamed(payload.username)
        id == CHOOSE i \in found : TRUE
    IN  IF found = {} \/ ~ verify_password(payload.password, users[id].password_hash)
        THEN /\ last' = Refused("login", 401)
             /\ UNCHANGED <<auth, catalog>>
        ELSE /\ last.issued < MaxTokens
             /\ auth_tokens' = create_token(auth_tokens, last.issued + 1, id,
                                            users[id].is_super_admin,
                                            IF users[id].is_super_admin THEN NULL
                                            ELSE users[id].business_id)
             /\ last' = [last EXCEPT !.op = "login", !.status = 200, !.user_id = id,
                                     !.issued = @ + 1]
             /\ UNCHANGED <<users, catalog>>

logout(token) ==
    LET current_user == get_current_user(auth_tokens, token)
    IN  IF current_user = Unauthenticated
        THEN /\ last' = Refused("logout", 401)
             /\ UNCHANGED <<auth, catalog>>
        ELSE /\ auth_tokens' = InvalidateTokens(auth_tokens, current_user.user_id)
             /\ last' = Invalidated("logout", current_user.user_id)
             /\ UNCHANGED <<users, catalog>>

change_password(token, payload, salt) ==
    LET current_user == get_current_user(auth_tokens, token)
        id == current_user.user_id
    IN  IF current_user = Unauthenticated
        THEN /\ last' = Refused("change_password", 401)
             /\ UNCHANGED <<auth, catalog>>
        ELSE IF id \notin UserIds
        THEN /\ last' = Refused("change_password", 404)
             /\ UNCHANGED <<auth, catalog>>
        ELSE IF ~ verify_password(payload.current_password, users[id].password_hash)
        THEN /\ last' = Refused("change_password", 401)
             /\ UNCHANGED <<auth, catalog>>
        ELSE /\ users' = [users EXCEPT ![id].password_hash =
                                          hash_password(payload.new_password, salt)]
             /\ auth_tokens' = InvalidateTokens(auth_tokens, id)
             /\ last' = Invalidated("change_password", id)
             /\ UNCHANGED catalog

admin_change_password(token, payload, salt) ==
    LET current_user == get_current_user(auth_tokens, token)
    IN  IF current_user = Unauthenticated
        THEN /\ last' = Refused("admin_change_password", 401)
             /\ UNCHANGED <<auth, catalog>>
        ELSE IF ~ current_user.is_super_admin
        THEN /\ last' = Refused("admin_change_password", 403)
             /\ UNCHANGED <<auth, catalog>>
        ELSE IF payload.new_password = ""
        THEN /\ last' = Refused("admin_change_password", 400)
             /\ UNCHANGED <<auth, catalog>>
        ELSE IF payload.user_id \notin UserIds
        THEN /\ last' = Refused("admin_change_password", 404)
             /\ UNCHANGED <<auth, catalog>>
        ELSE /\ users' = [users EXCEPT ![payload.user_id].password_hash =
                                          hash_password(payload.new_password, salt)]
             /\ auth_tokens' = InvalidateTokens(auth_tokens, payload.user_id)
             /\ last' = Invalidated("admin_change_password", payload.user_id)
             /\ UNCHANGED catalog

reset_password(payload, salt) ==
    LET found == UserNamed(payload.username)
        id == CHOOSE i \in found : TRUE
    IN  IF found = {}
        THEN /\ last' = Refused("reset_password", 404)
             /\ UNCHANGED <<auth, catalog>>
        ELSE /\ users' = [users EXCEPT ![id].password_hash =
                                          hash_password(payload.new_password, salt)]
             /\ auth_tokens' = InvalidateTokens(auth_tokens, id)
             /\ last' = Invalidated("reset_password", id)
             /\ UNCHANGED catalog

(* Time passes expires_at of a token: tokens expire in the order of issue.  *)
TokenExpires(token) ==
    /\ \E r \in auth_tokens : r.token = token /\ ~ r.expired
    /\ \A r \in auth_tokens : r.token < token => r.expired
    /\ auth_tokens' = { [r EXCEPT !.expired = @ \/ r.token = token] : r \in auth_tokens }
    /\ last' = [last EXCEPT !.op = "expire", !.status = NULL, !.user_id = NULL]
    /\ UNCHANGED <<users, catalog>>

Usernames == {"superadmin", "admin", "nobody"}

InitAuth ==
    /\ businesses = BusinessIds
    /\ types = << >>
    /\ last = [op |-> "none", status |-> NULL, user_id |-> NULL, issued |-> 0, revoked |-> {}]
    /\ tx = [s \in Sessions |-> Idle]
    /\ clients = << >>
    /\ sites = << >>
    /\ records = << >>
    /\ completions = << >>
    /\ users = SetupUsers
    /\ auth_tokens = {}

NextAuth ==
    \/ \E payload \in [username : Usernames, password : Passwords] : login(payload)
    \/ \E token \in 1..MaxTokens : logout(token)
    \/ \E token \in 1..MaxTokens, salt \in Salts :
          \E payload \in [current_password : Passwords, new_password : Passwords] :
              change_password(token, payload, salt)
    \/ \E token \in 1..MaxTokens, salt \in Salts :
          \E payload \in [user_id : 1..3, new_password : Passwords \cup {""}] :
              admin_change_password(token, payload, salt)
    \/ \E salt \in Salts :
          \E payload \in [username : Usernames, new_password : Passwords] :
              reset_password(payload, salt)
    \/ \E token \in 1..MaxTokens : TokenExpires(token)

SpecAuth == InitAuth /\ [][NextAuth]_vars

(* --------------------------- sessions: the claim ----------------------- *)
Authenticates(rows, token) == get_current_user(rows, token) # Unauthenticated

InvalidatingRequests ==
    {"logout", "change_password", "admin_change_password", "reset_password"}

(* C38: once a logout, change_password, admin_change_password or            *)
(* reset_password of a user has committed, no token issued to that user     *)
(* before the call authenticates a request, in the state the call leaves    *)
(* and in every later state, while every token of another user             *)
(* authenticates exactly as it did before the call.                         *)
C38_TokensInvalidated ==
    /\ [](\A token \in last.revoked : ~ Authenticates(auth_tokens, token))
    /\ [][(last'.op \in InvalidatingRequests /\ last'.status = 200) =>
             \A r \in auth_tokens :
                 IF r.user_id = last'.user_id
                 THEN r.token \in last'.revoked /\ ~ Authenticates(auth_tokens', r.token)
                 ELSE /\ r \in auth_tokens'
                      /\ Authenticates(auth_tokens', r.token)
                            = Authenticates(auth_tokens, r.token)]_vars

C38_Witness ==
    /\ last.op = "change_password" /\ last.status = 200
    /\ Cardinality(last.revoked) >= 2
    /\ \E r \in auth_tokens : r.user_id # last.user_id /\ Authenticates(auth_tokens, r.token)
====
